---- MODULE Spec2Model ----
(***************************************************************************)
(* The iterative refinement controller of the-muse-bot                     *)
(* (src/src/context/AIContext.tsx): generateIdeas chains one prompt        *)
(* enhancement call, then generate -> critique iterations, and writes the  *)
(* result to the provider's conversation state.                            *)
(*                                                                         *)
(* Conventions of the model                                                *)
(*   - a JavaScript string is a sequence of chunks (each chunk a TLA+      *)
(*     string); a chunk in Whitespace is white space, any other chunk is   *)
(*     one or more non-blank characters; concatenation is \o;              *)
(*   - a nullable value is a sequence of length 0 (null) or 1;             *)
(*   - a model response is a text: a sequence of tokens (white space       *)
(*     between tokens is not represented);                                 *)
(*   - a JSON value is a record of one shape for every type.               *)
(***************************************************************************)
EXTENDS Integers, Sequences, FiniteSets, TLC

(***************************************************************************)
(* Strings                                                                 *)
(***************************************************************************)
Whitespace == {" ", "\n", "\t"}

RECURSIVE trimStart(_)
trimStart(s) ==
  IF s # <<>> /\ Head(s) \in Whitespace THEN trimStart(Tail(s)) ELSE s

RECURSIVE trimEnd(_)
trimEnd(s) ==
  IF s # <<>> /\ s[Len(s)] \in Whitespace
    THEN trimEnd(SubSeq(s, 1, Len(s) - 1))
    ELSE s

\* String.prototype.trim
trim(s) == trimEnd(trimStart(s))

None == <<>>
Some(v) == <<v>>

(***************************************************************************)
(* JSON values: t is the type ("num", "str", "arr", "obj"), n the number,  *)
(* s the string, a the elements of an array or the members of an object    *)
(* (in insertion order), key the member name when the value is a member.   *)
(***************************************************************************)
JV(t, n, s, a, key) == [t |-> t, n |-> n, s |-> s, a |-> a, key |-> key]
JNum(n) == JV("num", n, <<>>, <<>>, "")
JStr(s) == JV("str", 0, s, <<>>, "")
JArr(a) == JV("arr", 0, <<>>, a, "")
JObj(a) == JV("obj", 0, <<>>, a, "")
JUndefined == JV("undefined", 0, <<>>, <<>>, "")
Member(k, v) == [v EXCEPT !.key = k]
Unkeyed(v) == [v EXCEPT !.key = ""]

\* `k in obj`
HasKey(obj, k) == obj.t = "obj" /\ \E i \in 1..Len(obj.a) : obj.a[i].key = k

\* obj[k] (the last member of that name; undefined when there is none)
Get(obj, k) ==
  IF HasKey(obj, k)
    THEN LET i == CHOOSE j \in 1..Len(obj.a) :
                    /\ obj.a[j].key = k
                    /\ \A h \in (j + 1)..Len(obj.a) : obj.a[h].key # k
         IN Unkeyed(obj.a[i])
    ELSE JUndefined

\* obj[k] = v: an existing property keeps its place, a new one goes last
Put(obj, k, v) ==
  IF HasKey(obj, k)
    THEN [obj EXCEPT !.a = [i \in 1..Len(obj.a) |->
                              IF obj.a[i].key = k THEN Member(k, v) ELSE obj.a[i]]]
    ELSE [obj EXCEPT !.a = Append(obj.a, Member(k, v))]

RECURSIVE PutAll(_, _, _)
PutAll(obj, members, i) ==
  IF i > Len(members) THEN obj
  ELSE PutAll(Put(obj, members[i].key, Unkeyed(members[i])), members, i + 1)

\* { ...base, ...src }: the own properties of src copied over base
SpreadInto(base, src) ==
  IF src.t = "obj" THEN PutAll(base, src.a, 1) ELSE base

(***************************************************************************)
(* Texts: a token is a bracket, a comma, a colon, a code fence (three      *)
(* backquotes), a JSON string literal, a JSON number, or a word of prose.  *)
(* A fence followed by the word json is the labelled fence.                *)
(***************************************************************************)
Tok(k, n, s) == [k |-> k, n |-> n, s |-> s]
LBrace == Tok("{", 0, <<>>)
RBrace == Tok("}", 0, <<>>)
LBrack == Tok("[", 0, <<>>)
RBrack == Tok("]", 0, <<>>)
Comma == Tok(",", 0, <<>>)
Colon == Tok(":", 0, <<>>)
Fence == Tok("fence", 0, <<>>)
StrTok(s) == Tok("str", 0, s)
NumTok(n) == Tok("num", n, <<>>)
Word(w) == Tok("word", 0, <<w>>)

(***************************************************************************)
(* JSON.parse on a token sequence.  A parse result is [ok, val, next]:     *)
(* next is the index of the first token after the value.                   *)
(***************************************************************************)
ParseBad == [ok |-> FALSE, val |-> JUndefined, next |-> 0]
ParseOk(v, next) == [ok |-> TRUE, val |-> v, next |-> next]

RECURSIVE ParseValue(_, _), ParseElems(_, _, _), ParseMembers(_, _, _)
ParseValue(t, i) ==
  IF i > Len(t) THEN ParseBad
  ELSE CASE t[i].k = "num" -> ParseOk(JNum(t[i].n), i + 1)
         [] t[i].k = "str" -> ParseOk(JStr(t[i].s), i + 1)
         [] t[i].k = "[" ->
              IF i + 1 <= Len(t) /\ t[i + 1].k = "]"
                THEN ParseOk(JArr(<<>>), i + 2)
                ELSE ParseElems(t, i + 1, <<>>)
         [] t[i].k = "{" ->
              IF i + 1 <= Len(t) /\ t[i + 1].k = "}"
                THEN ParseOk(JObj(<<>>), i + 2)
                ELSE ParseMembers(t, i + 1, JObj(<<>>))
         [] OTHER -> ParseBad

ParseElems(t, i, acc) ==
  LET r == ParseValue(t, i) IN
  IF ~r.ok \/ r.next > Len(t) THEN ParseBad
  ELSE IF t[r.next].k = "," THEN ParseElems(t, r.next + 1, Append(acc, r.val))
  ELSE IF t[r.next].k = "]" THEN ParseOk(JArr(Append(acc, r.val)), r.next + 1)
  ELSE ParseBad

ParseMembers(t, i, obj) ==
  IF i + 1 > Len(t) \/ t[i].k # "str" \/ Len(t[i].s) # 1 \/ t[i + 1].k # ":"
    THEN ParseBad
  ELSE
    LET r == ParseValue(t, i + 2) IN
    IF ~r.ok \/ r.next > Len(t) THEN ParseBad
    ELSE IF t[r.next].k = ","
      THEN ParseMembers(t, r.next + 1, Put(obj, t[i].s[1], r.val))
    ELSE IF t[r.next].k = "}"
      THEN ParseOk(Put(obj, t[i].s[1], r.val), r.next + 1)
    ELSE ParseBad

\* JSON.parse: the whole text must be one value
JSONparse(t) ==
  LET r == ParseValue(t, 1) IN
  IF r.ok /\ r.next = Len(t) + 1 THEN r ELSE ParseBad

(***************************************************************************)
(* extractAndParseJSON (AIContext.tsx): four regular expressions tried in  *)
(* order; the first whose match parses as JSON gives the result.  A match  *)
(* is [found, whole, group]: match[0] and the capture group match[1]       *)
(* (empty for a pattern without a group).                                  *)
(***************************************************************************)
NoMatch == [found |-> FALSE, whole |-> <<>>, group |-> <<>>]

Positions(t, k) == {i \in 1..Len(t) : t[i].k = k}
Min(S) == CHOOSE x \in S : \A y \in S : x <= y
Max(S) == CHOOSE x \in S : \A y \in S : x >= y

\* open [\s\S]* close, greedy: from the first `open` to the last `close`
MatchGreedy(t, open, close) ==
  IF Positions(t, open) = {} THEN NoMatch
  ELSE LET i == Min(Positions(t, open))
           ends == {j \in Positions(t, close) : j > i}
       IN IF ends = {} THEN NoMatch
          ELSE [found |-> TRUE, whole |-> SubSeq(t, i, Max(ends)), group |-> <<>>]

IsJsonLabel(t, i) == i <= Len(t) /\ t[i].k = "word" /\ t[i].s = <<"json">>

\* fence, optional label, ([\s\S]*?\s*), fence: lazy, up to the next fence
MatchFence(t, labelled) ==
  LET starts == {i \in Positions(t, "fence") : labelled => IsJsonLabel(t, i + 1)}
  IN IF starts = {} THEN NoMatch
     ELSE LET i == Min(starts)
              from == IF labelled THEN i + 2 ELSE i + 1
              ends == {j \in Positions(t, "fence") : j >= from}
          IN IF ends = {} THEN NoMatch
             ELSE [found |-> TRUE,
                   whole |-> SubSeq(t, i, Min(ends)),
                   group |-> SubSeq(t, from, Min(ends) - 1)]

patterns ==
  << [kind |-> "object"], [kind |-> "array"], [kind |-> "jsonFence"], [kind |-> "fence"] >>

Match(t, pattern) ==
  CASE pattern.kind = "object" -> MatchGreedy(t, "{", "}")
    [] pattern.kind = "array" -> MatchGreedy(t, "[", "]")
    [] pattern.kind = "jsonFence" -> MatchFence(t, TRUE)
    [] pattern.kind = "fence" -> MatchFence(t, FALSE)

\* .replace(/^\s*```json\s*/, '').replace(/\s*```\s*$/, '').trim()
Cleaned(jsonStr) ==
  LET a == IF Len(jsonStr) >= 2 /\ jsonStr[1].k = "fence" /\ IsJsonLabel(jsonStr, 2)
             THEN SubSeq(jsonStr, 3, Len(jsonStr)) ELSE jsonStr
  IN IF a # <<>> /\ a[Len(a)].k = "fence" THEN SubSeq(a, 1, Len(a) - 1) ELSE a

\* a search that gives up at the first candidate that does not parse:
\* SearchTriesEveryPattern tells it from the code's
RECURSIVE TryPatternsUntilFailure(_, _, _)
TryPatternsUntilFailure(text, ps, i) ==
  IF i > Len(ps) THEN ParseBad
  ELSE LET match == Match(text, ps[i]) IN
       IF match.found
         THEN LET jsonStr == IF match.group # <<>> THEN match.group ELSE match.whole
              IN JSONparse(Cleaned(jsonStr))
         ELSE TryPatternsUntilFailure(text, ps, i + 1)

RECURSIVE TryPatterns(_, _, _)
TryPatterns(text, ps, i) ==
  IF i > Len(ps) THEN ParseBad
  ELSE LET match == Match(text, ps[i]) IN
       IF match.found
         THEN LET jsonStr == IF match.group # <<>> THEN match.group ELSE match.whole
                  r == JSONparse(Cleaned(jsonStr))
              IN IF r.ok THEN r ELSE TryPatterns(text, ps, i + 1)
         ELSE TryPatterns(text, ps, i + 1)

\* ok = FALSE stands for `throw new Error('No valid JSON found in response')`
extractAndParseJSON(text) == TryPatterns(text, patterns, 1)

(***************************************************************************)
(* validateCriticResponse (AIContext.tsx)                                  *)
(***************************************************************************)
validScores == {<<"A++">>, <<"A+">>, <<"A">>, <<"B">>, <<"C">>}

\* !response: undefined, 0 and the empty string are falsy
Falsy(v) ==
  \/ v.t = "undefined"
  \/ v.t = "num" /\ v.n = 0
  \/ v.t = "str" /\ v.s = <<>>

\* the validator of the older controller (BadAIContext copy.tsx, lines 185-196),
\* which lets an empty ratings array and an empty feedback pass:
\* ValidatorMatchesContract tells it from the code's
validateCriticResponseOlder(response) ==
  /\ ~Falsy(response)
  /\ HasKey(response, "ratings")
  /\ Get(response, "ratings").t = "arr"
  /\ \A i \in 1..Len(Get(response, "ratings").a) :
       LET r == Get(response, "ratings").a[i]
       IN r.t = "num" /\ r.n >= 0 /\ r.n <= 100
  /\ HasKey(response, "feedback")
  /\ Get(response, "feedback").t = "str"
  /\ HasKey(response, "overallScore")
  /\ Get(response, "overallScore") \in {JStr(g) : g \in validScores}

validateCriticResponse(response) ==
  IF Falsy(response) \/ response.t \notin {"obj", "arr"} THEN FALSE
  ELSE IF ~(HasKey(response, "ratings") /\ HasKey(response, "feedback")
            /\ HasKey(response, "overallScore")) THEN FALSE
  ELSE IF ~(/\ Get(response, "ratings").t = "arr"
            /\ Len(Get(response, "ratings").a) > 0
            /\ \A i \in 1..Len(Get(response, "ratings").a) :
                 LET r == Get(response, "ratings").a[i]
                 IN r.t = "num" /\ r.n >= 0 /\ r.n <= 100) THEN FALSE
  ELSE IF ~(/\ Get(response, "feedback").t = "str"
            /\ Len(trim(Get(response, "feedback").s)) > 0) THEN FALSE
  ELSE IF ~(/\ Get(response, "overallScore").t = "str"
            /\ Get(response, "overallScore").s \in validScores) THEN FALSE
  ELSE TRUE

(***************************************************************************)
(* Inputs: what the user types and what the model collaborator answers.    *)
(***************************************************************************)
\* contents of the prompt textarea (one chunk per character)
Prompts == { <<>>, <<" ">>, <<"c">>, <<" ", "c", "o", "f">> }

\* answers of the prompt enhancer: the empty text, or an enhanced prompt
EnhancerTexts == { <<>>, <<"Generate ideas involving coffee">> }

RECURSIVE Joined(_, _)
Joined(texts, sep) ==
  IF texts = <<>> THEN <<>>
  ELSE IF Len(texts) = 1 THEN texts[1]
  ELSE texts[1] \o sep \o Joined(Tail(texts), sep)

IdeaText(title, description) ==
  << LBrace, StrTok(<<"title">>), Colon, StrTok(title), Comma,
     StrTok(<<"description">>), Colon, StrTok(description), RBrace >>

ArrayText(elems) == <<LBrack>> \o Joined(elems, <<Comma>>) \o <<RBrack>>

NumbersText(ns) == ArrayText([i \in 1..Len(ns) |-> <<NumTok(ns[i])>>])

CritiqueText(ratings, feedback, overallScore) ==
  << LBrace, StrTok(<<"ratings">>), Colon >> \o NumbersText(ratings)
  \o << Comma, StrTok(<<"feedback">>), Colon, StrTok(feedback), Comma,
        StrTok(<<"overallScore">>), Colon, StrTok(overallScore), RBrace >>

Idea1 == IdeaText(<<"Cold brew bar">>, <<"d1">>)
Idea2 == IdeaText(<<"Bean tracker">>, <<"d2">>)
Idea3 == IdeaText(<<"Cup sleeve">>, <<"d3">>)

\* answers of the idea generator
ProseOnly == << Word("Sure,"), Word("here"), Word("are"), Word("some"),
                Word("ideas:"), Word("not"), Word("json") >>
TwoIdeas == ArrayText(<<Idea1, Idea2>>)
ThreeIdeasFenced ==
  << Word("Here"), Word("you"), Word("go:"), Fence, Word("json") >>
  \o ArrayText(<<Idea3, Idea2, Idea1>>) \o << Fence, Word("Enjoy!") >>
OneIdea == ArrayText(<<Idea1>>)

GeneratorTexts == { ProseOnly, TwoIdeas, ThreeIdeasFenced, OneIdea }

\* answers of the critic: ratings, feedback and grade
Critiques ==
  { [ratings |-> <<80, 80>>, overallScore |-> <<"B">>],
    [ratings |-> <<95, 95, 95>>, overallScore |-> <<"B">>],
    [ratings |-> <<95, 95, 95>>, overallScore |-> <<"A++">>] }
FeedbackFor(ratings) == << "Feedback for ", ToString(ratings[1]) >>
OutOfRange == CritiqueText(<<80, 150>>, <<"Good">>, <<"A">>)

CriticTexts ==
  { CritiqueText(c.ratings, FeedbackFor(c.ratings), c.overallScore) : c \in Critiques }
  \cup { ProseOnly, OutOfRange }

\* what a failing model call throws: an Error with a message, or another value
Thrown == { [isError |-> TRUE, message |-> <<"Network error">>],
            [isError |-> FALSE, message |-> <<>>] }

(***************************************************************************)
(* Constants of AIContext.tsx                                              *)
(***************************************************************************)
MAX_ITERATIONS == 5
MIN_ITERATIONS == 2
\* IMPROVEMENT_THRESHOLD = 0.05, as a percentage
IMPROVEMENT_THRESHOLD_PERCENT == 5
\* the rating below which an idea keeps the loop going (line 362)
RATING_CUTOFF == 90

(***************************************************************************)
(* Bounds of the model                                                     *)
(***************************************************************************)
\* invocations of generateIdeas that may be in flight at once
MaxSlots == 2
\* model calls that return a text in one behaviour (a call may always throw)
MaxOkCalls == 13
\* the same, where generateIdeas is also called directly (SpecApi)
MaxOkCallsApi == 5
\* the same, when the form is given any text (SpecForm)
MaxOkCallsForm == 5
\* requests admitted by api/gemini.js in one behaviour, and steps of its clock
MaxRequests == 11
MaxTicks == 2
\* entries of the catalog of creative directions given to the sampler
MaxCatalog == 5
\* ideas in an array given to extractAndParseJSON on its own (SpecExtract)
MaxIdeas == 3
\* the same, with both providers and the mode buttons (SpecModes)
MaxOkCallsModes == 5
\* the same, when the critic may rate every idea 0 (SpecZero)
MaxOkCallsZero == 7
\* the same, for the provider of BadAIContext copy.tsx (SpecOlder), the maxima
\* of iterations it may be configured with, and the entries of its catalog
MaxOkCallsOlder == 5
MaxConfiguredIterations == 2
MaxOlderCatalog == 3
\* the same, when every call is settled in the end (SpecLive): one run of
\* MAX_ITERATIONS iterations takes 1 + 2 * MAX_ITERATIONS of them
MaxOkCallsLive == 11

(***************************************************************************)
(* State                                                                   *)
(***************************************************************************)
VARIABLES
  genAI,         \* useState genAI: FALSE is null, TRUE the GoogleGenerativeAI instance
  apiInit,       \* initializeAPI of the mount effect: "pending" or "settled"
  isLoading,     \* useState isLoading
  conversation,  \* useState conversation: None or Some(Conversation)
  error,         \* useState error: None or Some(message)
  run,           \* the local variables of each invocation of generateIdeas
  okLeft,        \* model calls that may still return a text
  mode,          \* ModeContext: "good" or "bad"
  bad,           \* the state of the provider of BadAIContext.tsx
  input,         \* the argument of a helper function called on its own
  output,        \* what the helper returned
  server,        \* api/gemini.js: the serverless function and its process
  older          \* the state of the provider of BadAIContext copy.tsx

vars == <<genAI, apiInit, isLoading, conversation, error, run, okLeft, mode, bad,
          input, output, server, older>>

Slots == 1..MaxSlots

\* no helper has been called
NoOutput == [fn |-> "none", ok |-> FALSE, val |-> JUndefined]

\* the client addresses and the process of api/gemini.js before any request:
\* process.env, Date.now(), requestLog (line 7), the requests admitted so far
\* per address, and the response to the last request
ClientIPs == {"1.1.1.1", "2.2.2.2", "unknown"}
NoResponse == [status |-> 0, body |-> "none", apiKey |-> ""]
NoServer ==
  [ VERCEL_ENV |-> "",
    GEMINI_API_KEY |-> "",
    VITE_GEMINI_API_KEY |-> "",
    API_KEY |-> "",
    now |-> 0,
    requestLog |-> [ip \in ClientIPs |-> <<>>],
    admitted |-> [ip \in ClientIPs |-> <<>>],
    response |-> NoResponse ]

\* the provider of BadAIContext.tsx: its four useState cells (lines 137-140),
\* initializeAPI of its mount effect, and the locals of its generateIdeas
NoBad ==
  [ genAI |-> FALSE,
    apiInit |-> "pending",
    isLoading |-> FALSE,
    conversation |-> None,
    error |-> None,
    pc |-> "idle",
    prompt |-> <<>>,
    enhancedPrompt |-> <<>> ]

BadAwaiting == {"enhance", "generate"}

Awaiting == {"enhance", "initialIdeas", "initialCritic", "loopIdeas", "loopCritic"}

\* a number kept as a fraction: the average of the ratings of an iteration
Fraction(num, den) == [num |-> num, den |-> den]

\* the locals of generateIdeas as declared at lines 261-270; pc is the await
\* the invocation is suspended at ("idle": no invocation uses the slot; "done",
\* "failed": the invocation has returned).  before, writes, calls and earlier
\* observe the invocation: conversation when it started, its setConversation
\* calls, the model calls it issued, the invocations that were in flight when
\* it started.
NoRun ==
  [ pc |-> "idle",
    prompt |-> <<>>,
    enhancedPrompt |-> <<>>,
    currentPrompt |-> <<>>,
    iteration |-> 0,
    bestScore |-> <<"C">>,
    finalIdeas |-> <<>>,
    finalFeedback |-> <<>>,
    lastIterationScore |-> Fraction(0, 1),
    firstIterationResponse |-> <<>>,
    firstIterationFeedback |-> <<>>,
    improvementThresholdMet |-> TRUE,
    iterationHistory |-> <<>>,
    ideas |-> <<>>,
    before |-> None,
    writes |-> 0,
    calls |-> <<>>,
    earlier |-> {} ]

\* the provider of BadAIContext copy.tsx (lines 1-384): the configured maximum
\* of iterations, its four useState cells (lines 200-203), initializeAPI of its
\* mount effect, and the locals of its generateIdeas.  sampled and sent observe
\* the invocation: how often it has invoked the sampler, and, for each
\* generation call it has issued, the directions in the message and the
\* invocation of the sampler they came from.
NoOlder ==
  [ MAX_ITERATIONS |-> 1,
    genAI |-> FALSE,
    apiInit |-> "pending",
    isLoading |-> FALSE,
    conversation |-> None,
    error |-> None,
    pc |-> "idle",
    prompt |-> <<>>,
    enhancedPrompt |-> <<>>,
    currentPrompt |-> <<>>,
    iteration |-> 0,
    bestScore |-> <<"C">>,
    finalIdeas |-> <<>>,
    finalFeedback |-> <<>>,
    lastIterationScore |-> Fraction(0, 1),
    firstIterationResponse |-> <<>>,
    firstIterationFeedback |-> <<>>,
    improvementThresholdMet |-> TRUE,
    iterationHistory |-> <<>>,
    ideas |-> <<>>,
    selectedDirections |-> <<>>,
    sampled |-> 0,
    sent |-> <<>> ]

Init ==
  /\ genAI = FALSE
  /\ apiInit = "pending"
  /\ isLoading = FALSE
  /\ conversation = None
  /\ error = None
  /\ run = [r \in Slots |-> NoRun]
  /\ okLeft = MaxOkCalls
  /\ mode = "good"
  /\ bad = NoBad
  /\ input = <<>>
  /\ output = NoOutput
  /\ server = NoServer
  /\ older = NoOlder

(***************************************************************************)
(* initializeAPI (lines 212-239): getSecureApiKey resolves with a key,     *)
(* resolves with an empty key, or rejects.                                 *)
(***************************************************************************)
InitializeAPI(outcome) ==
  /\ apiInit = "pending"
  /\ apiInit' = "settled"
  /\ CASE outcome = "key" ->
            genAI' = TRUE /\ UNCHANGED error
       [] outcome = "emptyKey" ->
            /\ error' = Some(<<"Failed to initialize API: Empty API key received">>)
            /\ UNCHANGED genAI
       [] outcome = "rejected" ->
            /\ error' = Some(<<"Failed to initialize API: ", "Network error">>)
            /\ UNCHANGED genAI
  /\ UNCHANGED <<isLoading, conversation, run, okLeft, mode, bad, input, output, server, older>>

(***************************************************************************)
(* Pieces of generateIdeas (lines 241-486)                                 *)
(***************************************************************************)
Error(message) == [isError |-> TRUE, message |-> message]

RECURSIVE Sum(_)
Sum(ns) == IF ns = <<>> THEN 0 ELSE Head(ns) + Sum(Tail(ns))

\* ratings.reduce((a, b) => a + b, 0) / ratings.length
Average(ratings) == Fraction(Sum(ratings), Len(ratings))

\* criticism.ratings of a validated criticism, as numbers
RatingsOf(criticism) ==
  [i \in 1..Len(Get(criticism, "ratings").a) |-> Get(criticism, "ratings").a[i].n]

\* ratings[index] || 0, index counted from 0
RatingAt(ratings, index) ==
  IF index + 1 <= Len(ratings) /\ ratings[index + 1] # 0 THEN ratings[index + 1] ELSE 0

\* ideas.map((idea, index) => ({ ...idea, rating: ratings[index] || 0 }))
WithRatings(ideas, ratings) ==
  [i \in 1..Len(ideas) |->
     Put(SpreadInto(JObj(<<>>), ideas[i]), "rating", JNum(RatingAt(ratings, i - 1)))]

\* the template `idea-${index}-${iteration}`
IdeaId(index, iteration) == <<"idea-", ToString(index), "-", ToString(iteration)>>

\* parsedIdeas.map((idea, index) => ({ id: ..., ...idea, rating: 0 }))
WithIds(parsedIdeas, iteration) ==
  [i \in 1..Len(parsedIdeas) |->
     Put(SpreadInto(JObj(<<Member("id", JStr(IdeaId(i - 1, iteration)))>>),
                    parsedIdeas[i]),
         "rating", JNum(0))]

\* the entry pushed on iterationHistory
IterationData(ideas, criticism) ==
  [ ideas |-> ideas,
    feedback |-> Get(criticism, "feedback").s,
    score |-> Get(criticism, "overallScore").s,
    ratings |-> RatingsOf(criticism) ]

\* a flag that is set whenever the average did not fall:
\* FlagIsLastImprovement tells it from the code's
ImprovementThresholdMetNotWorse(lastIterationScore, currentScore) ==
  IF lastIterationScore.num = 0 THEN TRUE
  ELSE currentScore.num * lastIterationScore.den
         >= lastIterationScore.num * currentScore.den

\* the improvement of the older controller (BadAIContext copy.tsx, lines
\* 767-768), which divides by the previous average unguarded: x / 0 is Infinity
\* for x > 0 and NaN for x = 0, and NaN >= threshold is false;
\* ZeroAverageIsNoImprovement tells it from the code's
ImprovementThresholdMetUnguarded(lastIterationScore, currentScore) ==
  IF lastIterationScore.num = 0 THEN currentScore.num > 0
  ELSE 100 * (currentScore.num * lastIterationScore.den
              - lastIterationScore.num * currentScore.den)
       >= IMPROVEMENT_THRESHOLD_PERCENT * lastIterationScore.num * currentScore.den

\* improvement >= IMPROVEMENT_THRESHOLD, where improvement is
\* lastIterationScore ? (currentScore - lastIterationScore) / lastIterationScore : 0
ImprovementThresholdMet(lastIterationScore, currentScore) ==
  IF lastIterationScore.num = 0 THEN 0 >= IMPROVEMENT_THRESHOLD_PERCENT
  ELSE 100 * (currentScore.num * lastIterationScore.den
              - lastIterationScore.num * currentScore.den)
       >= IMPROVEMENT_THRESHOLD_PERCENT * lastIterationScore.num * currentScore.den

\* the loop condition without its floor: MinimumIterations tells it from the code's
LoopConditionNoMinimum(iteration, finalIdeas) ==
  /\ iteration < MAX_ITERATIONS
  /\ \E i \in 1..Len(finalIdeas) : Get(finalIdeas[i], "rating").n < RATING_CUTOFF

\* the loop condition without its ceiling: MaximumIterations tells it from the code's
LoopConditionNoMaximum(iteration, finalIdeas) ==
  \/ iteration < MIN_ITERATIONS
  \/ \E i \in 1..Len(finalIdeas) : Get(finalIdeas[i], "rating").n < RATING_CUTOFF

\* the condition of the while loop (line 362)
LoopCondition(iteration, finalIdeas) ==
  /\ iteration < MAX_ITERATIONS
  /\ \/ iteration < MIN_ITERATIONS
     \/ \E i \in 1..Len(finalIdeas) : Get(finalIdeas[i], "rating").n < RATING_CUTOFF

\* the object passed to setConversation (lines 464-477); id and timestamp,
\* both Date.now(), are left out
Conversation(l) ==
  [ prompt |-> l.prompt,
    enhancedPrompt |-> l.currentPrompt,
    ideas |-> l.finalIdeas,
    feedback |-> l.finalFeedback,
    iteration |-> l.iteration,
    firstIterationResponse |-> l.firstIterationResponse,
    firstIterationFeedback |-> l.firstIterationFeedback,
    bestScore |-> l.bestScore,
    improvementThresholdMet |-> l.improvementThresholdMet,
    iterationHistory |-> l.iterationHistory ]

\* what stays of an invocation once it has returned
Ended(l, pc) ==
  [NoRun EXCEPT !.pc = pc, !.before = l.before, !.writes = l.writes, !.calls = l.calls]

\* the invocation suspends on a model call
Suspend(r, l, pc, call) ==
  /\ run' = [run EXCEPT ![r] = [l EXCEPT !.pc = pc, !.calls = Append(l.calls, call)]]
  /\ UNCHANGED <<isLoading, conversation, error>>

\* catch without finally: FailureKeepsResult tells it from the code's
FailWithoutFinally(r, thrown) ==
  /\ error' = Some(IF thrown.isError THEN thrown.message
                   ELSE <<"An unexpected error occurred. Please try again.">>)
  /\ run' = [run EXCEPT ![r] = Ended(run[r], "failed")]
  /\ UNCHANGED <<isLoading, conversation>>

\* a failure handler that issues the failed call once more: NoRetry tells it
\* from the code's
FailRetrying(r, thrown) ==
  /\ run' = [run EXCEPT ![r].calls = Append(@, @[Len(@)])]
  /\ UNCHANGED <<isLoading, conversation, error>>

\* catch and finally (lines 479-485)
Fail(r, thrown) ==
  /\ error' = Some(IF thrown.isError THEN thrown.message
                   ELSE <<"An unexpected error occurred. Please try again.">>)
  /\ isLoading' = FALSE
  /\ run' = [run EXCEPT ![r] = Ended(run[r], "failed")]
  /\ UNCHANGED conversation

\* setConversation (lines 464-477) and finally
Finish(r, l) ==
  /\ conversation' = Some(Conversation(l))
  /\ isLoading' = FALSE
  /\ run' = [run EXCEPT ![r] = Ended([l EXCEPT !.writes = l.writes + 1], "done")]
  /\ UNCHANGED error

\* a loop that publishes every iteration it decides: WrittenOncePerRun tells it
\* from the code's
DecidePublishing(r, l) ==
  IF LoopCondition(l.iteration, l.finalIdeas)
    THEN /\ run' = [run EXCEPT ![r] = [l EXCEPT !.pc = "loopIdeas",
                                                !.calls = Append(l.calls, "generate"),
                                                !.writes = l.writes + 1]]
         /\ conversation' = Some(Conversation(l))
         /\ UNCHANGED <<isLoading, error>>
    ELSE Finish(r, l)

\* a loop that goes straight to the critic: CallsInOrder tells it from the code's
DecideSkippingGeneration(r, l) ==
  IF LoopCondition(l.iteration, l.finalIdeas)
    THEN Suspend(r, l, "loopCritic", "critique")
    ELSE Finish(r, l)

\* the test of the while loop, at line 362: once more round the loop, or out
Decide(r, l) ==
  IF LoopCondition(l.iteration, l.finalIdeas)
    THEN Suspend(r, l, "loopIdeas", "generate")
    ELSE Finish(r, l)

(***************************************************************************)
(* generateIdeas up to its first await (lines 241-278)                     *)
(***************************************************************************)
FreeSlots == {r \in Slots : run[r].pc \notin Awaiting}

\* the first guard without trim(): BlankPromptRejected tells it from the code's
generateIdeasUntrimmed(prompt) ==
  IF prompt = <<>>
    THEN /\ error' = Some(<<"Please enter a prompt">>)
         /\ UNCHANGED <<genAI, apiInit, isLoading, conversation, run, okLeft, mode, bad,
                      input, output, server, older>>
  ELSE IF ~genAI
    THEN /\ error' = Some(<<"API not initialized. Please try again later.">>)
         /\ UNCHANGED <<genAI, apiInit, isLoading, conversation, run, okLeft, mode, bad,
                      input, output, server, older>>
  ELSE /\ okLeft > 0
       /\ FreeSlots # {}
       /\ LET r == Min(FreeSlots) IN
            /\ isLoading' = TRUE
            /\ error' = None
            /\ run' = [q \in Slots |->
                         IF q = r
                           THEN [NoRun EXCEPT !.pc = "enhance",
                                              !.prompt = prompt,
                                              !.currentPrompt = prompt,
                                              !.before = conversation,
                                              !.calls = <<"enhance">>,
                                              !.earlier = {e \in Slots :
                                                             run[e].pc \in Awaiting}]
                           ELSE [run[q] EXCEPT !.earlier = @ \ {r}]]
       /\ UNCHANGED <<genAI, apiInit, conversation, okLeft, mode, bad, input, output,
                      server, older>>

\* an invocation that does not test genAI: NoCallBeforeInitialization tells it
\* from the code's
generateIdeasUninitialized(prompt) ==
  IF trim(prompt) = <<>>
    THEN /\ error' = Some(<<"Please enter a prompt">>)
         /\ UNCHANGED <<genAI, apiInit, isLoading, conversation, run, okLeft, mode, bad,
                      input, output, server, older>>
  ELSE /\ okLeft > 0
       /\ FreeSlots # {}
       /\ LET r == Min(FreeSlots) IN
            /\ isLoading' = TRUE
            /\ error' = None
            /\ run' = [q \in Slots |->
                         IF q = r
                           THEN [NoRun EXCEPT !.pc = "enhance",
                                              !.prompt = prompt,
                                              !.currentPrompt = prompt,
                                              !.before = conversation,
                                              !.calls = <<"enhance">>,
                                              !.earlier = {e \in Slots :
                                                             run[e].pc \in Awaiting}]
                           ELSE [run[q] EXCEPT !.earlier = @ \ {r}]]
       /\ UNCHANGED <<genAI, apiInit, conversation, okLeft, mode, bad, input, output,
                      server, older>>

generateIdeas(prompt) ==
  IF trim(prompt) = <<>>
    THEN /\ error' = Some(<<"Please enter a prompt">>)
         /\ UNCHANGED <<genAI, apiInit, isLoading, conversation, run, okLeft, mode, bad,
                      input, output, server, older>>
  ELSE IF ~genAI
    THEN /\ error' = Some(<<"API not initialized. Please try again later.">>)
         /\ UNCHANGED <<genAI, apiInit, isLoading, conversation, run, okLeft, mode, bad,
                      input, output, server, older>>
  ELSE /\ okLeft > 0
       /\ FreeSlots # {}
       /\ LET r == Min(FreeSlots) IN
            /\ isLoading' = TRUE
            /\ error' = None
            /\ run' = [q \in Slots |->
                         IF q = r
                           THEN [NoRun EXCEPT !.pc = "enhance",
                                              !.prompt = prompt,
                                              !.currentPrompt = prompt,
                                              !.before = conversation,
                                              !.calls = <<"enhance">>,
                                              !.earlier = {e \in Slots :
                                                             run[e].pc \in Awaiting}]
                           ELSE [run[q] EXCEPT !.earlier = @ \ {r}]]
       /\ UNCHANGED <<genAI, apiInit, conversation, okLeft, mode, bad, input, output,
                      server, older>>

(***************************************************************************)
(* The continuations of generateIdeas: one action per await                *)
(***************************************************************************)
Returns(r, pc) ==
  /\ run[r].pc = pc
  /\ okLeft > 0
  /\ okLeft' = okLeft - 1
  /\ UNCHANGED <<genAI, apiInit, mode, bad, input, output, server, older>>

\* enhancerChat.sendMessage(prompt) resolves (lines 278-295)
EnhancerReturns(r, enhancedPrompt) ==
  /\ Returns(r, "enhance")
  /\ IF enhancedPrompt = <<>>
       THEN Fail(r, Error(<<"Failed to enhance the prompt. Please try again.">>))
       ELSE Suspend(r, [run[r] EXCEPT !.enhancedPrompt = enhancedPrompt,
                                      !.currentPrompt = enhancedPrompt],
                    "initialIdeas", "generate")

\* initialGeneratorChat.sendMessage(currentPrompt) resolves (lines 295-324)
InitialIdeasReturn(r, text) ==
  /\ Returns(r, "initialIdeas")
  /\ LET parsed == extractAndParseJSON(text) IN
     IF ~parsed.ok \/ parsed.val.t # "arr"
       THEN Fail(r, Error(<<"Failed to parse ideas from AI. Please try again.">>))
       ELSE Suspend(r, [run[r] EXCEPT !.firstIterationResponse = text,
                                      !.ideas = parsed.val.a],
                    "initialCritic", "critique")

\* lines 339-358: the first iteration is stored
StoreInitial(l, initialIdeas, initialCriticism) ==
  [l EXCEPT
     !.iterationHistory = Append(@, IterationData(initialIdeas, initialCriticism)),
     !.lastIterationScore = Average(RatingsOf(initialCriticism)),
     !.bestScore = Get(initialCriticism, "overallScore").s,
     !.finalIdeas = WithRatings(initialIdeas, RatingsOf(initialCriticism)),
     !.finalFeedback = Get(initialCriticism, "feedback").s,
     !.iteration = 1,
     !.ideas = <<>>]

\* a first critique stored without validation: GoodConversationWellFormed
\* tells it from the code's
InitialCriticReturnUnvalidated(r, text) ==
  /\ Returns(r, "initialCritic")
  /\ LET parsed == extractAndParseJSON(text) IN
     IF ~parsed.ok
       THEN Fail(r, Error(<<"Failed to parse initial feedback response: ",
                            "No valid JSON found in response">>))
     ELSE Decide(r, StoreInitial([run[r] EXCEPT !.firstIterationFeedback = text],
                                 run[r].ideas, parsed.val))

\* initialCriticChat.sendMessage(...) resolves (lines 317-362)
InitialCriticReturn(r, text) ==
  /\ Returns(r, "initialCritic")
  /\ LET parsed == extractAndParseJSON(text) IN
     IF ~parsed.ok
       THEN Fail(r, Error(<<"Failed to parse initial feedback response: ",
                            "No valid JSON found in response">>))
     ELSE IF ~validateCriticResponse(parsed.val)
       THEN Fail(r, Error(<<"Failed to parse initial feedback response: ",
                            "Invalid initial criticism format">>))
     ELSE Decide(r, StoreInitial([run[r] EXCEPT !.firstIterationFeedback = text],
                                 run[r].ideas, parsed.val))

\* generatorChat.sendMessage(feedbackMessage) resolves (lines 384-417)
LoopIdeasReturn(r, text) ==
  /\ Returns(r, "loopIdeas")
  /\ LET parsed == extractAndParseJSON(text) IN
     IF ~parsed.ok
       THEN Fail(r, Error(<<"Failed to parse ideas response: ",
                            "No valid JSON found in response">>))
     ELSE IF parsed.val.t # "arr"
       THEN Fail(r, Error(<<"Failed to parse ideas response: ",
                            "Invalid ideas format: expected array">>))
     ELSE Suspend(r, [run[r] EXCEPT !.ideas = WithIds(parsed.val.a, run[r].iteration)],
                  "loopCritic", "critique")

\* a loop body that does not push on iterationHistory: HistoryMatchesCounter tells
\* it from the code's
StoreIterationUnrecorded(l, ideas, criticism) ==
  [l EXCEPT
     !.improvementThresholdMet =
        ImprovementThresholdMet(l.lastIterationScore, Average(RatingsOf(criticism))),
     !.lastIterationScore = Average(RatingsOf(criticism)),
     !.finalIdeas = WithRatings(ideas, RatingsOf(criticism)),
     !.bestScore = Get(criticism, "overallScore").s,
     !.finalFeedback = Get(criticism, "feedback").s,
     !.iteration = @ + 1,
     !.currentPrompt = l.enhancedPrompt
                       \o <<"\n\nPrevious iteration feedback: ">>
                       \o Get(criticism, "feedback").s,
     !.ideas = <<>>]

\* scoreRank of the older controller (BadAIContext copy.tsx, line 779)
scoreRank(score) ==
  CASE score = <<"A++">> -> 5
    [] score = <<"A+">> -> 4
    [] score = <<"A">> -> 3
    [] score = <<"B">> -> 2
    [] score = <<"C">> -> 1
    [] OTHER -> 0

\* a loop body whose merge of the ratings writes into the stored ideas:
\* HistoryAppendOnly tells it from the code's
StoreIterationMergingInPlace(l, ideas, criticism) ==
  [l EXCEPT
     !.iterationHistory =
        Append(@, IterationData(WithRatings(ideas, RatingsOf(criticism)), criticism)),
     !.improvementThresholdMet =
        ImprovementThresholdMet(l.lastIterationScore, Average(RatingsOf(criticism))),
     !.lastIterationScore = Average(RatingsOf(criticism)),
     !.finalIdeas = WithRatings(ideas, RatingsOf(criticism)),
     !.bestScore = Get(criticism, "overallScore").s,
     !.finalFeedback = Get(criticism, "feedback").s,
     !.iteration = @ + 1,
     !.currentPrompt = l.enhancedPrompt
                       \o <<"\n\nPrevious iteration feedback: ">>
                       \o Get(criticism, "feedback").s,
     !.ideas = <<>>]

\* the loop body of the older controller (BadAIContext copy.tsx, lines 778-785):
\* ideas and grade are replaced only by a higher grade, the feedback always;
\* SameIterationReturned tells it from the code's
StoreIterationOlder(l, ideas, criticism) ==
  LET higher == scoreRank(Get(criticism, "overallScore").s) > scoreRank(l.bestScore) IN
  [l EXCEPT
     !.iterationHistory = Append(@, IterationData(ideas, criticism)),
     !.improvementThresholdMet =
        ImprovementThresholdMet(l.lastIterationScore, Average(RatingsOf(criticism))),
     !.lastIterationScore = Average(RatingsOf(criticism)),
     !.finalIdeas = IF higher THEN WithRatings(ideas, RatingsOf(criticism)) ELSE @,
     !.bestScore = IF higher THEN Get(criticism, "overallScore").s ELSE @,
     !.finalFeedback = Get(criticism, "feedback").s,
     !.iteration = @ + 1,
     !.currentPrompt = l.enhancedPrompt
                       \o <<"\n\nPrevious iteration feedback: ">>
                       \o Get(criticism, "feedback").s,
     !.ideas = <<>>]

\* a loop body that appends each feedback to the prompt it carried:
\* PromptNeverAccumulates tells it from the code's
StoreIterationAccumulating(l, ideas, criticism) ==
  [l EXCEPT
     !.iterationHistory = Append(@, IterationData(ideas, criticism)),
     !.improvementThresholdMet =
        ImprovementThresholdMet(l.lastIterationScore, Average(RatingsOf(criticism))),
     !.lastIterationScore = Average(RatingsOf(criticism)),
     !.finalIdeas = WithRatings(ideas, RatingsOf(criticism)),
     !.bestScore = Get(criticism, "overallScore").s,
     !.finalFeedback = Get(criticism, "feedback").s,
     !.iteration = @ + 1,
     !.currentPrompt = l.currentPrompt
                       \o <<"\n\nPrevious iteration feedback: ">>
                       \o Get(criticism, "feedback").s,
     !.ideas = <<>>]

\* lines 432-461: the body of the loop after the critique
StoreIteration(l, ideas, criticism) ==
  [l EXCEPT
     !.iterationHistory = Append(@, IterationData(ideas, criticism)),
     !.improvementThresholdMet =
        ImprovementThresholdMet(l.lastIterationScore, Average(RatingsOf(criticism))),
     !.lastIterationScore = Average(RatingsOf(criticism)),
     !.finalIdeas = WithRatings(ideas, RatingsOf(criticism)),
     !.bestScore = Get(criticism, "overallScore").s,
     !.finalFeedback = Get(criticism, "feedback").s,
     !.iteration = @ + 1,
     !.currentPrompt = l.enhancedPrompt
                       \o <<"\n\nPrevious iteration feedback: ">>
                       \o Get(criticism, "feedback").s,
     !.ideas = <<>>]

\* criticChat.sendMessage(...) resolves (lines 409-462)
LoopCriticReturn(r, text) ==
  /\ Returns(r, "loopCritic")
  /\ LET parsed == extractAndParseJSON(text) IN
     IF ~parsed.ok
       THEN Fail(r, Error(<<"Failed to parse feedback response: ",
                            "No valid JSON found in response">>))
     ELSE IF ~validateCriticResponse(parsed.val)
       THEN Fail(r, Error(<<"Failed to parse feedback response: ",
                            "Invalid criticism format">>))
     ELSE Decide(r, StoreIteration(run[r], run[r].ideas, parsed.val))

\* the awaited model call rejects
CallThrows(r, thrown) ==
  /\ run[r].pc \in Awaiting
  /\ Fail(r, thrown)
  /\ UNCHANGED <<genAI, apiInit, okLeft, mode, bad, input, output, server, older>>

(***************************************************************************)
(* BadAIContext.tsx: the provider of the "bad ideas" mode.  One            *)
(* enhancement call, one generation call, no critic.                       *)
(***************************************************************************)
\* /\[.*\]|\{.*\}/s: the leftmost bracket or brace that has a closing partner
\* after it, up to the last such partner
MatchBracketOrBrace(t) ==
  LET a == MatchGreedy(t, "[", "]")
      o == MatchGreedy(t, "{", "}")
      ai == Min(Positions(t, "["))
      oi == Min(Positions(t, "{"))
  IN IF ~a.found THEN o
     ELSE IF ~o.found THEN a
     ELSE IF ai < oi THEN a ELSE o

\* jsonStr.replace(/```json|```/g, '').trim()
BadCleaned(jsonStr) ==
  LET keep == {i \in 1..Len(jsonStr) :
                 /\ jsonStr[i].k # "fence"
                 /\ ~(IsJsonLabel(jsonStr, i) /\ i > 1 /\ jsonStr[i - 1].k = "fence")}
      nth(k) == CHOOSE i \in keep : Cardinality({j \in keep : j <= i}) = k
  IN [k \in 1..Cardinality(keep) |-> jsonStr[nth(k)]]

badPatterns == << [kind |-> "bracketOrBrace"], [kind |-> "jsonFence"], [kind |-> "fence"] >>

RECURSIVE BadTryPatterns(_, _)
BadTryPatterns(text, i) ==
  IF i > Len(badPatterns) THEN ParseBad
  ELSE LET match == IF badPatterns[i].kind = "bracketOrBrace"
                      THEN MatchBracketOrBrace(text)
                      ELSE Match(text, badPatterns[i])
       IN IF match.found
            THEN LET jsonStr == IF match.group # <<>> THEN match.group ELSE match.whole
                     r == JSONparse(BadCleaned(jsonStr))
                 IN IF r.ok THEN r ELSE BadTryPatterns(text, i + 1)
            ELSE BadTryPatterns(text, i + 1)

\* extractAndParseJSON of BadAIContext.tsx (lines 119-133)
badExtractAndParseJSON(text) == BadTryPatterns(text, 1)

\* initializeAPI of BadAIContext.tsx (lines 142-153)
BadInitializeAPI(outcome) ==
  /\ bad.apiInit = "pending"
  /\ bad' = CASE outcome = "key" ->
                   [bad EXCEPT !.apiInit = "settled", !.genAI = TRUE]
              [] outcome = "emptyKey" ->
                   [bad EXCEPT !.apiInit = "settled",
                               !.error = Some(<<"Failed to initialize API: ", "Empty API key">>)]
              [] outcome = "rejected" ->
                   [bad EXCEPT !.apiInit = "settled",
                               !.error = Some(<<"Failed to initialize API: ", "Network error">>)]
  /\ UNCHANGED <<genAI, apiInit, isLoading, conversation, error, run, okLeft, mode, input,
               output, server, older>>

\* generateIdeas of BadAIContext.tsx up to its first await (lines 155-171)
badGenerateIdeas(prompt) ==
  /\ IF trim(prompt) = <<>>
       THEN bad' = [bad EXCEPT !.error = Some(<<"Please enter a prompt">>)]
     ELSE IF ~bad.genAI
       THEN bad' = [bad EXCEPT !.error =
                      Some(<<"API not initialized. Please try again later.">>)]
     ELSE /\ okLeft > 0
          /\ bad.pc \notin BadAwaiting
          /\ bad' = [bad EXCEPT !.isLoading = TRUE,
                                !.error = None,
                                !.pc = "enhance",
                                !.prompt = prompt,
                                !.enhancedPrompt = <<>>]
  /\ UNCHANGED <<genAI, apiInit, isLoading, conversation, error, run, okLeft, mode, input,
               output, server, older>>

\* catch and finally (lines 225-229)
BadFail(thrown) ==
  bad' = [bad EXCEPT !.error = Some(IF thrown.isError THEN thrown.message
                                    ELSE <<"An unexpected error occurred">>),
                     !.isLoading = FALSE,
                     !.pc = "failed",
                     !.prompt = <<>>,
                     !.enhancedPrompt = <<>>]

\* finalIdeas (lines 200-203); Date.now() is left out of the id
BadWithIds(ideas) ==
  [i \in 1..Len(ideas) |->
     Put(SpreadInto(JObj(<<>>), ideas[i]), "id",
         JStr(<<"bad-idea-", "-", ToString(i - 1)>>))]

\* the object passed to setConversation (lines 206-224)
BadConversation(prompt, enhancedPrompt, firstIterationResponse, ideas) ==
  [ prompt |-> prompt,
    enhancedPrompt |-> enhancedPrompt,
    ideas |-> BadWithIds(ideas),
    feedback |-> <<>>,
    iteration |-> 1,
    firstIterationResponse |-> firstIterationResponse,
    firstIterationFeedback |-> <<>>,
    bestScore |-> <<"N/A">>,
    improvementThresholdMet |-> FALSE,
    iterationHistory |-> << [ideas |-> ideas, feedback |-> <<>>,
                             score |-> <<"N/A">>, ratings |-> <<>>] >> ]

BadReturns(pc) ==
  /\ bad.pc = pc
  /\ okLeft > 0
  /\ okLeft' = okLeft - 1
  /\ UNCHANGED <<genAI, apiInit, isLoading, conversation, error, run, mode, input, output,
                 server, older>>

\* enhancerChat.sendMessage(prompt) resolves (lines 171-193)
BadEnhancerReturns(enhancedPrompt) ==
  /\ BadReturns("enhance")
  /\ IF enhancedPrompt = <<>>
       THEN BadFail(Error(<<"Failed to enhance the prompt">>))
       ELSE bad' = [bad EXCEPT !.pc = "generate", !.enhancedPrompt = enhancedPrompt]

\* initialGeneratorChat.sendMessage(generatorMessage) resolves (lines 193-229)
BadIdeasReturn(text) ==
  /\ BadReturns("generate")
  /\ LET parsed == badExtractAndParseJSON(text) IN
     IF ~parsed.ok
       THEN BadFail(Error(<<"No valid JSON found">>))
     ELSE IF parsed.val.t # "arr"
       THEN BadFail(Error(<<"Invalid response format from idea generator">>))
     ELSE bad' = [bad EXCEPT
                    !.conversation = Some(BadConversation(bad.prompt, bad.enhancedPrompt,
                                                          text, parsed.val.a)),
                    !.isLoading = FALSE,
                    !.pc = "done",
                    !.prompt = <<>>,
                    !.enhancedPrompt = <<>>]

\* the awaited model call rejects
BadCallThrows(thrown) ==
  /\ bad.pc \in BadAwaiting
  /\ BadFail(thrown)
  /\ UNCHANGED <<genAI, apiInit, isLoading, conversation, error, run, okLeft, mode, input,
               output, server, older>>

(***************************************************************************)
(* ModeSelector.tsx: the two buttons call setMode of ModeContext           *)
(***************************************************************************)
setMode(m) ==
  /\ mode' = m
  /\ UNCHANGED <<genAI, apiInit, isLoading, conversation, error, run, okLeft, bad, input,
               output, server, older>>

(***************************************************************************)
(* PromptInput.tsx: the form that calls generateIdeas                      *)
(***************************************************************************)
MAX_CHARS == 500
MIN_CHARS == 3

\* the validation effect (lines 25-38): TRUE when validationError is set
validationError(prompt) ==
  \/ Len(prompt) > MAX_CHARS
  \/ Len(prompt) > 0 /\ Len(prompt) < MIN_CHARS
  \/ Len(trim(prompt)) = 0 /\ Len(prompt) > 0

\* handleSubmit (lines 48-54), on the context chosen by the mode (lines 16-23)
handleSubmit(prompt) ==
  LET loading == IF mode = "good" THEN isLoading ELSE bad.isLoading IN
  IF trim(prompt) = <<>> \/ loading \/ validationError(prompt)
    THEN UNCHANGED vars
  ELSE IF mode = "good"
    THEN generateIdeas(trim(prompt))
    ELSE badGenerateIdeas(trim(prompt))

(***************************************************************************)
(* The key is fetched on mount; the model calls of the runs in flight      *)
(* return or throw.                                                        *)
(***************************************************************************)
Continue ==
  \/ \E outcome \in {"key", "emptyKey", "rejected"} : InitializeAPI(outcome)
  \/ \E r \in Slots, text \in EnhancerTexts : EnhancerReturns(r, text)
  \/ \E r \in Slots, text \in GeneratorTexts : InitialIdeasReturn(r, text)
  \/ \E r \in Slots, text \in CriticTexts : InitialCriticReturn(r, text)
  \/ \E r \in Slots, text \in GeneratorTexts : LoopIdeasReturn(r, text)
  \/ \E r \in Slots, text \in CriticTexts : LoopCriticReturn(r, text)
  \/ \E r \in Slots, thrown \in Thrown : CallThrows(r, thrown)

\* the application: generateIdeas is called by the form only
Next ==
  \/ \E prompt \in Prompts : handleSubmit(prompt)
  \/ Continue

Spec == Init /\ [][Next]_vars

(***************************************************************************)
(* The application when every model call eventually returns or throws: the *)
(* promise a run awaits is settled, and its continuation runs.             *)
(***************************************************************************)
Settles(r) ==
  \/ \E text \in EnhancerTexts : EnhancerReturns(r, text)
  \/ \E text \in GeneratorTexts : InitialIdeasReturn(r, text)
  \/ \E text \in CriticTexts : InitialCriticReturn(r, text)
  \/ \E text \in GeneratorTexts : LoopIdeasReturn(r, text)
  \/ \E text \in CriticTexts : LoopCriticReturn(r, text)
  \/ \E thrown \in Thrown : CallThrows(r, thrown)

InitLive ==
  /\ genAI = FALSE
  /\ apiInit = "pending"
  /\ isLoading = FALSE
  /\ conversation = None
  /\ error = None
  /\ run = [r \in Slots |-> NoRun]
  /\ okLeft = MaxOkCallsLive
  /\ mode = "good"
  /\ bad = NoBad
  /\ input = <<>>
  /\ output = NoOutput
  /\ server = NoServer
  /\ older = NoOlder

SpecLive == InitLive /\ [][Next]_vars /\ \A r \in Slots : WF_vars(Settles(r))

(***************************************************************************)
(* The form with any text in its textarea                                  *)
(***************************************************************************)
\* a text of n characters
Chars(n) == [i \in 1..n |-> "x"]

\* texts of the textarea: those of Prompts, texts with spaces around a short
\* word, and texts at and above the maximum
FormPrompts ==
  Prompts \cup { <<" ", " ", "c">>, <<"c", "o", " ">>, <<"c", "o">>, <<" ", " ", " ">>,
                 Chars(MAX_CHARS), Chars(MAX_CHARS + 1) }

InitForm ==
  /\ genAI = FALSE
  /\ apiInit = "pending"
  /\ isLoading = FALSE
  /\ conversation = None
  /\ error = None
  /\ run = [r \in Slots |-> NoRun]
  /\ okLeft = MaxOkCallsForm
  /\ mode = "good"
  /\ bad = NoBad
  /\ input = <<>>
  /\ output = NoOutput
  /\ server = NoServer
  /\ older = NoOlder

NextForm ==
  \/ \E prompt \in FormPrompts : handleSubmit(prompt)
  \/ Continue

SpecForm == InitForm /\ [][NextForm]_vars

(***************************************************************************)
(* The application with a critic that may rate every idea 0                *)
(***************************************************************************)
ZeroCritique == CritiqueText(<<0, 0>>, <<"Nothing works">>, <<"C">>)

InitZero ==
  /\ genAI = FALSE
  /\ apiInit = "pending"
  /\ isLoading = FALSE
  /\ conversation = None
  /\ error = None
  /\ run = [r \in Slots |-> NoRun]
  /\ okLeft = MaxOkCallsZero
  /\ mode = "good"
  /\ bad = NoBad
  /\ input = <<>>
  /\ output = NoOutput
  /\ server = NoServer
  /\ older = NoOlder

NextZero ==
  \/ Next
  \/ \E r \in Slots : InitialCriticReturn(r, ZeroCritique)
  \/ \E r \in Slots : LoopCriticReturn(r, ZeroCritique)

SpecZero == InitZero /\ [][NextZero]_vars

(***************************************************************************)
(* The provider alone: a consumer of useAI may invoke generateIdeas with    *)
(* any prompt and at any time.                                             *)
(***************************************************************************)
CallGenerateIdeas(prompt) == generateIdeas(prompt)

\* the prompts of a direct call: blank ones, and one that is not
ApiPrompts == {p \in Prompts : Len(p) <= 1}

InitApi ==
  /\ genAI = FALSE
  /\ apiInit = "pending"
  /\ isLoading = FALSE
  /\ conversation = None
  /\ error = None
  /\ run = [r \in Slots |-> NoRun]
  /\ okLeft = MaxOkCallsApi
  /\ mode = "good"
  /\ bad = NoBad
  /\ input = <<>>
  /\ output = NoOutput
  /\ server = NoServer
  /\ older = NoOlder

NextApi ==
  \/ Continue
  \/ \E prompt \in ApiPrompts : CallGenerateIdeas(prompt)

SpecApi == InitApi /\ [][NextApi]_vars

(***************************************************************************)
(* The application with both modes (App.tsx): the two providers are        *)
(* mounted together, the form submits to the provider of the current mode, *)
(* the mode buttons are always enabled.                                    *)
(***************************************************************************)
InitModes ==
  /\ genAI = FALSE
  /\ apiInit = "pending"
  /\ isLoading = FALSE
  /\ conversation = None
  /\ error = None
  /\ run = [r \in Slots |-> NoRun]
  /\ okLeft = MaxOkCallsModes
  /\ mode = "good"
  /\ bad = NoBad
  /\ input = <<>>
  /\ output = NoOutput
  /\ server = NoServer
  /\ older = NoOlder

NextModes ==
  \/ Next
  \/ \E m \in {"good", "bad"} : setMode(m)
  \/ \E outcome \in {"key", "emptyKey", "rejected"} : BadInitializeAPI(outcome)
  \/ \E text \in EnhancerTexts : BadEnhancerReturns(text)
  \/ \E text \in GeneratorTexts : BadIdeasReturn(text)
  \/ \E thrown \in Thrown : BadCallThrows(thrown)

SpecModes == InitModes /\ [][NextModes]_vars

(***************************************************************************)
(* validateCriticResponse called on its own, on any parsed payload         *)
(***************************************************************************)
\* the value of a property of the payload, or None when the payload has no
\* such property
RatingsChoices ==
  { None,
    Some(JArr(<<>>)),
    Some(JArr(<<JNum(80)>>)),
    Some(JArr(<<JNum(0), JNum(100)>>)),
    Some(JArr(<<JNum(-1)>>)),
    Some(JArr(<<JNum(80), JNum(101)>>)),
    Some(JArr(<<JStr(<<"80">>)>>)),
    Some(JNum(80)) }

FeedbackChoices ==
  { None, Some(JStr(<<>>)), Some(JStr(<<" ">>)), Some(JStr(<<"Good">>)), Some(JNum(1)) }

ScoreChoices ==
  { None, Some(JStr(<<"D">>)), Some(JStr(<<"a++">>)), Some(JNum(5)) }
  \cup { Some(JStr(g)) : g \in validScores }

PayloadOf(ratings, feedback, overallScore) ==
  JObj( (IF ratings = None THEN <<>> ELSE <<Member("ratings", ratings[1])>>)
        \o (IF feedback = None THEN <<>> ELSE <<Member("feedback", feedback[1])>>)
        \o (IF overallScore = None THEN <<>>
            ELSE <<Member("overallScore", overallScore[1])>>) )

Payloads ==
  { PayloadOf(r, f, o) : r \in RatingsChoices, f \in FeedbackChoices, o \in ScoreChoices }
  \cup { JUndefined, JNum(0), JNum(7), JStr(<<>>), JStr(<<"A">>), JArr(<<>>),
         JArr(<<JNum(80)>>) }

ClientIdle ==
  /\ genAI = FALSE
  /\ apiInit = "pending"
  /\ isLoading = FALSE
  /\ conversation = None
  /\ error = None
  /\ run = [r \in Slots |-> NoRun]
  /\ okLeft = 0
  /\ mode = "good"
  /\ bad = NoBad
  /\ older = NoOlder
  /\ output = NoOutput

Idle == ClientIdle /\ server = NoServer

InitValidate == Idle /\ input \in Payloads

Validate ==
  /\ output.fn = "none"
  /\ output' = [fn |-> "validate", ok |-> validateCriticResponse(input), val |-> JUndefined]
  /\ UNCHANGED <<genAI, apiInit, isLoading, conversation, error, run, okLeft, mode, bad,
                 input, server, older>>

SpecValidate == InitValidate /\ [][Validate]_vars

(***************************************************************************)
(* extractAndParseJSON called on its own, on any response text             *)
(***************************************************************************)
IdeaPool ==
  { [title |-> <<"Cold brew bar">>, description |-> <<"d1">>],
    [title |-> <<"Bean tracker">>, description |-> <<"d2">>],
    [title |-> <<"Cup sleeve">>, description |-> <<"d3">>] }

\* the arrays of one to MaxIdeas ideas
IdeaLists == UNION { [1..n -> IdeaPool] : n \in 1..MaxIdeas }

Wrappers == {"bare", "prose", "jsonFence", "fence", "proseAndFence"}

\* a JSON text inside what the model writes around it
Wrap(w, body) ==
  CASE w = "bare" -> body
    [] w = "prose" -> <<Word("Here"), Word("you"), Word("go:")>> \o body \o <<Word("Enjoy!")>>
    [] w = "jsonFence" -> <<Fence, Word("json")>> \o body \o <<Fence>>
    [] w = "fence" -> <<Fence>> \o body \o <<Fence>>
    [] w = "proseAndFence" ->
         <<Word("Here"), Word("you"), Word("go:"), Fence, Word("json")>>
         \o body \o <<Fence, Word("Enjoy!")>>

ArrayOfIdeas(ideas) ==
  ArrayText([i \in 1..Len(ideas) |-> IdeaText(ideas[i].title, ideas[i].description)])

\* texts that hold no array of ideas: no JSON at all, JSON cut short, prose in
\* brackets, a number or a string in a fence, a critique
OtherTexts ==
  { <<>>,
    ProseOnly,
    <<LBrack, LBrace, StrTok(<<"title">>), Colon>>,
    <<Word("see"), LBrack, Word("the"), Word("note"), RBrack>>,
    <<LBrace, Word("oops"), RBrace>>,
    <<Fence, Word("json"), NumTok(42), Fence>>,
    <<Fence, StrTok(<<"hi">>), Fence>>,
    <<Fence, Word("json"), Word("nothing"), Fence>>,
    <<Fence, Fence>>,
    CritiqueText(<<80, 80>>, <<"Good">>, <<"B">>),
    OutOfRange }

\* ideas is the array the text holds, or empty when it holds none
ExtractInputs ==
  { [text |-> Wrap(w, ArrayOfIdeas(ideas)), ideas |-> ideas] :
      w \in Wrappers, ideas \in IdeaLists }
  \cup { [text |-> t, ideas |-> <<>>] : t \in OtherTexts }

InitExtract == Idle /\ input \in ExtractInputs

Extract ==
  /\ output.fn = "none"
  /\ LET r == extractAndParseJSON(input.text)
     IN output' = [fn |-> "extract", ok |-> r.ok, val |-> r.val]
  /\ UNCHANGED <<genAI, apiInit, isLoading, conversation, error, run, okLeft, mode, bad,
                 input, server, older>>

SpecExtract == InitExtract /\ [][Extract]_vars

(***************************************************************************)
(* The sampler of creative directions (BadAIContext.tsx lines 176-178),    *)
(* on its own: [...catalog].sort(() => 0.5 - Math.random()).slice(0, n)    *)
(***************************************************************************)
\* the first entries of creativeDirections (lines 66-117)
creativeDirections ==
  << "Solve a simple problem in the most convoluted way possible",
     "Create something that's trying way too hard to be trendy",
     "Design a product that has one amazing feature but one deal-breaking flaw",
     "Make something oddly specific to an incredibly niche audience",
     "Create a solution that works but has amusing side effects",
     "Design something that's a parody of modern tech trends" >>

Catalog(n) == SubSeq(creativeDirections, 1, n)

\* the orders sort can leave an array of n entries in: the comparator answers
\* at random, so the order is any permutation
Orders(n) == { f \in [1..n -> 1..n] : \A i, j \in 1..n : i # j => f[i] # f[j] }

\* array.slice(0, end)
slice0(array, end) == SubSeq(array, 1, Min({end, Len(array)}))

SampleInputs ==
  { [catalog |-> Catalog(n), count |-> count] : n \in 1..MaxCatalog, count \in 0..MaxCatalog }

InitSample == Idle /\ input \in SampleInputs

\* a sampler that sorts the catalog itself: SamplerDrawsDistinct tells it from
\* the code's
selectedDirectionsInPlace ==
  /\ output.fn = "none"
  /\ \E f \in Orders(Len(input.catalog)) :
       LET sorted == [i \in 1..Len(input.catalog) |-> input.catalog[f[i]]]
           selected == slice0(sorted, input.count)
       IN /\ output' = [fn |-> "sample", ok |-> TRUE,
                        val |-> JArr([i \in 1..Len(selected) |-> JStr(<<selected[i]>>)])]
          /\ input' = [input EXCEPT !.catalog = sorted]
  /\ UNCHANGED <<genAI, apiInit, isLoading, conversation, error, run, okLeft, mode, bad,
                 server, older>>

selectedDirections ==
  /\ output.fn = "none"
  /\ \E f \in Orders(Len(input.catalog)) :
       LET copy == input.catalog
           sorted == [i \in 1..Len(copy) |-> copy[f[i]]]
           selected == slice0(sorted, input.count)
       IN output' = [fn |-> "sample", ok |-> TRUE,
                     val |-> JArr([i \in 1..Len(selected) |-> JStr(<<selected[i]>>)])]
  /\ UNCHANGED <<genAI, apiInit, isLoading, conversation, error, run, okLeft, mode, bad,
                 input, server, older>>

SpecSample == InitSample /\ [][selectedDirections]_vars

(***************************************************************************)
(* BadAIContext copy.tsx, lines 1-384: a controller that gives the         *)
(* generator creative directions drawn by the sampler.  Its maximum of     *)
(* iterations is a value of the configuration.                             *)
(***************************************************************************)
OLDER_MIN_ITERATIONS == 0
\* IMPROVEMENT_THRESHOLD = 0.2, as a percentage
OLDER_IMPROVEMENT_THRESHOLD_PERCENT == 20

\* the first entries of its creativeDirections (lines 116-120)
olderCreativeDirections ==
  << "Make it needlessly complicated with at least 17 steps",
     "Design it to be as inconvenient as humanly possible",
     "Incorporate outdated technology in the most inappropriate way",
     "Make it solve a problem that doesn't exist" >>

\* [...creativeDirections].sort(() => 0.5 - Math.random()).slice(0, 5)
\* (lines 248-250), for the order f the sort leaves the copy in
olderSelectedDirections(f) ==
  LET copy == SubSeq(olderCreativeDirections, 1, MaxOlderCatalog)
      sorted == [i \in 1..Len(copy) |-> copy[f[i]]]
  IN slice0(sorted, 5)

\* improvement >= IMPROVEMENT_THRESHOLD (lines 336-337)
olderImprovementThresholdMet(lastIterationScore, currentAverage) ==
  IF lastIterationScore.num = 0 THEN 0 >= OLDER_IMPROVEMENT_THRESHOLD_PERCENT
  ELSE 100 * (currentAverage.num * lastIterationScore.den
              - lastIterationScore.num * currentAverage.den)
       >= OLDER_IMPROVEMENT_THRESHOLD_PERCENT * lastIterationScore.num * currentAverage.den

\* the condition of the while loop (line 297)
OlderLoopCondition(l) ==
  /\ l.iteration < l.MAX_ITERATIONS
  /\ (l.iteration < OLDER_MIN_ITERATIONS \/ l.improvementThresholdMet)

\* finalIdeas of the first iteration (lines 289-293) and of the loop (lines
\* 340-344); Date.now() is left out of the id
OlderWithRatings(ideas, ratings, suffix) ==
  [i \in 1..Len(ideas) |->
     Put(Put(SpreadInto(JObj(<<>>), ideas[i]), "rating", JNum(RatingAt(ratings, i - 1))),
         "id", JStr(<<"bad-idea-", "-", ToString(i - 1)>> \o suffix))]

\* what stays of an invocation once it has returned
OlderEnded(l, pc) ==
  [NoOlder EXCEPT !.MAX_ITERATIONS = l.MAX_ITERATIONS,
                  !.genAI = l.genAI,
                  !.apiInit = l.apiInit,
                  !.conversation = l.conversation,
                  !.error = l.error,
                  !.pc = pc,
                  !.sampled = l.sampled,
                  !.sent = l.sent]

\* catch and finally (lines 365-369)
OlderFail(thrown) ==
  older' = [OlderEnded(older, "failed") EXCEPT
              !.error = Some(IF thrown.isError THEN thrown.message
                             ELSE <<"An unexpected error occurred">>)]

\* generatorChat.sendMessage: the message carries selectedDirections (lines
\* 263 and 308)
OlderSendToGenerator(l, pc) ==
  older' = [l EXCEPT !.pc = pc,
                     !.sent = Append(@, [directions |-> l.selectedDirections,
                                         sample |-> l.sampled])]

\* the test of the while loop, then the next generation call, or
\* setConversation (lines 352-365) and finally
OlderDecide(l) ==
  IF OlderLoopCondition(l)
    THEN OlderSendToGenerator(l, "loopIdeas")
    ELSE older' = [OlderEnded(l, "done") EXCEPT !.conversation = Some(Conversation(l))]

\* initializeAPI (lines 205-216)
OlderInitializeAPI(outcome) ==
  /\ older.apiInit = "pending"
  /\ older' = CASE outcome = "key" ->
                     [older EXCEPT !.apiInit = "settled", !.genAI = TRUE]
                [] outcome = "emptyKey" ->
                     [older EXCEPT !.apiInit = "settled",
                                   !.error = Some(<<"Failed to initialize API: ",
                                                    "Empty API key">>)]
                [] outcome = "rejected" ->
                     [older EXCEPT !.apiInit = "settled",
                                   !.error = Some(<<"Failed to initialize API: ",
                                                    "Network error">>)]
  /\ UNCHANGED <<genAI, apiInit, isLoading, conversation, error, run, okLeft, mode, bad,
                 input, output, server>>

\* generateIdeas up to its first await (lines 218-234)
olderGenerateIdeas(prompt) ==
  /\ IF trim(prompt) = <<>>
       THEN older' = [older EXCEPT !.error = Some(<<"Please enter a prompt">>)]
     ELSE IF ~older.genAI
       THEN older' = [older EXCEPT !.error =
                        Some(<<"API not initialized. Please try again later.">>)]
     ELSE /\ okLeft > 0
          /\ older.pc \notin Awaiting
          /\ older' = [OlderEnded(older, "enhance") EXCEPT
                         !.isLoading = TRUE,
                         !.error = None,
                         !.prompt = prompt,
                         !.sampled = 0,
                         !.sent = <<>>]
  /\ UNCHANGED <<genAI, apiInit, isLoading, conversation, error, run, okLeft, mode, bad,
                 input, output, server>>

OlderReturns(pc) ==
  /\ older.pc = pc
  /\ okLeft > 0
  /\ okLeft' = okLeft - 1
  /\ UNCHANGED <<genAI, apiInit, isLoading, conversation, error, run, mode, bad, input,
                 output, server>>

\* enhancerChat.sendMessage(prompt) resolves (lines 234-265): the directions
\* are drawn, once, and the first generation call is issued
OlderEnhancerReturns(enhancedPrompt) ==
  /\ OlderReturns("enhance")
  /\ IF enhancedPrompt = <<>>
       THEN OlderFail(Error(<<"Failed to enhance the prompt">>))
       ELSE \E f \in Orders(MaxOlderCatalog) :
              OlderSendToGenerator(
                [older EXCEPT !.enhancedPrompt = enhancedPrompt,
                              !.currentPrompt = enhancedPrompt,
                              !.selectedDirections = olderSelectedDirections(f),
                              !.sampled = @ + 1],
                "initialIdeas")

\* initialGeneratorChat.sendMessage(generatorMessage) resolves (lines 265-274)
OlderInitialIdeasReturn(text) ==
  /\ OlderReturns("initialIdeas")
  /\ LET parsed == badExtractAndParseJSON(text) IN
     IF ~parsed.ok
       THEN OlderFail(Error(<<"No valid JSON found">>))
     ELSE IF parsed.val.t # "arr"
       THEN OlderFail(Error(<<"Invalid response format from idea generator">>))
     ELSE older' = [older EXCEPT !.pc = "initialCritic",
                                 !.firstIterationResponse = text,
                                 !.ideas = parsed.val.a]

\* initialCriticChat.sendMessage(...) resolves (lines 271-297)
OlderInitialCriticReturn(text) ==
  /\ OlderReturns("initialCritic")
  /\ LET parsed == badExtractAndParseJSON(text) IN
     IF ~parsed.ok
       THEN OlderFail(Error(<<"No valid JSON found">>))
     ELSE IF ~validateCriticResponseOlder(parsed.val)
       THEN OlderFail(Error(<<"Invalid initial criticism format">>))
     ELSE OlderDecide(
            [older EXCEPT
               !.firstIterationFeedback = text,
               !.iterationHistory = Append(@, IterationData(older.ideas, parsed.val)),
               !.lastIterationScore = Average(RatingsOf(parsed.val)),
               !.bestScore = Get(parsed.val, "overallScore").s,
               !.finalIdeas = OlderWithRatings(older.ideas, RatingsOf(parsed.val), <<>>),
               !.finalFeedback = Get(parsed.val, "feedback").s,
               !.iteration = 1,
               !.ideas = <<>>])

\* generatorChat.sendMessage(feedbackMessage) resolves (lines 314-321)
OlderLoopIdeasReturn(text) ==
  /\ OlderReturns("loopIdeas")
  /\ LET parsed == badExtractAndParseJSON(text) IN
     IF ~parsed.ok
       THEN OlderFail(Error(<<"No valid JSON found">>))
     ELSE IF parsed.val.t # "arr"
       THEN OlderFail(Error(<<"Invalid ideas format: expected array">>))
     ELSE older' = [older EXCEPT !.pc = "loopCritic", !.ideas = parsed.val.a]

\* criticChat.sendMessage(...) resolves (lines 320-350)
OlderLoopCriticReturn(text) ==
  /\ OlderReturns("loopCritic")
  /\ LET parsed == badExtractAndParseJSON(text) IN
     IF ~parsed.ok
       THEN OlderFail(Error(<<"No valid JSON found">>))
     ELSE IF ~validateCriticResponseOlder(parsed.val)
       THEN OlderFail(Error(<<"Invalid criticism format">>))
     ELSE OlderDecide(
            [older EXCEPT
               !.iterationHistory = Append(@, IterationData(older.ideas, parsed.val)),
               !.improvementThresholdMet =
                  olderImprovementThresholdMet(older.lastIterationScore,
                                               Average(RatingsOf(parsed.val))),
               !.lastIterationScore = Average(RatingsOf(parsed.val)),
               !.finalIdeas =
                  OlderWithRatings(older.ideas, RatingsOf(parsed.val),
                                   <<"-iter-", ToString(older.iteration)>>),
               !.bestScore = Get(parsed.val, "overallScore").s,
               !.finalFeedback = Get(parsed.val, "feedback").s,
               !.iteration = @ + 1,
               !.currentPrompt = older.enhancedPrompt
                                 \o <<"\n\nPrevious iteration feedback: ">>
                                 \o Get(parsed.val, "feedback").s,
               !.ideas = <<>>])

\* the awaited model call rejects
OlderCallThrows(thrown) ==
  /\ older.pc \in Awaiting
  /\ OlderFail(thrown)
  /\ UNCHANGED <<genAI, apiInit, isLoading, conversation, error, run, okLeft, mode, bad,
                 input, output, server>>

\* the provider alone, with any configured maximum
InitOlder ==
  /\ genAI = FALSE
  /\ apiInit = "pending"
  /\ isLoading = FALSE
  /\ conversation = None
  /\ error = None
  /\ run = [r \in Slots |-> NoRun]
  /\ okLeft = MaxOkCallsOlder
  /\ mode = "good"
  /\ bad = NoBad
  /\ input = <<>>
  /\ output = NoOutput
  /\ server = NoServer
  /\ \E maximum \in 1..MaxConfiguredIterations :
       older = [NoOlder EXCEPT !.MAX_ITERATIONS = maximum]

NextOlder ==
  \/ \E outcome \in {"key", "emptyKey", "rejected"} : OlderInitializeAPI(outcome)
  \/ \E prompt \in ApiPrompts : olderGenerateIdeas(prompt)
  \/ \E text \in EnhancerTexts : OlderEnhancerReturns(text)
  \/ \E text \in GeneratorTexts : OlderInitialIdeasReturn(text)
  \/ \E text \in CriticTexts : OlderInitialCriticReturn(text)
  \/ \E text \in GeneratorTexts : OlderLoopIdeasReturn(text)
  \/ \E text \in CriticTexts : OlderLoopCriticReturn(text)
  \/ \E thrown \in Thrown : OlderCallThrows(thrown)

SpecOlder == InitOlder /\ [][NextOlder]_vars

(***************************************************************************)
(* api/gemini.js: the serverless function that hands out the API key       *)
(***************************************************************************)
RATE_LIMIT_WINDOW == 60000  \* 60 * 1000: one minute, in milliseconds
MAX_REQUESTS_PER_WINDOW == 10

\* a limiter that refuses only above the maximum: AtMostTenPerWindow tells it
\* from the code's
isRateLimitedAboveMaximum(requestLog, now, ip) ==
  LET windowStart == now - RATE_LIMIT_WINDOW
      InWindow(time) == time > windowStart
      kept == SelectSeq(requestLog[ip], InWindow)
  IN IF Len(kept) > MAX_REQUESTS_PER_WINDOW
       THEN [limited |-> TRUE, requestLog |-> [requestLog EXCEPT ![ip] = kept]]
       ELSE [limited |-> FALSE,
             requestLog |-> [requestLog EXCEPT ![ip] = Append(kept, now)]]

\* a limiter that records the requests it refuses: RefusalsNotRecorded tells it
\* from the code's
isRateLimitedRecordingRefusals(requestLog, now, ip) ==
  LET windowStart == now - RATE_LIMIT_WINDOW
      InWindow(time) == time > windowStart
      kept == SelectSeq(requestLog[ip], InWindow)
  IN [limited |-> Len(kept) >= MAX_REQUESTS_PER_WINDOW,
      requestLog |-> [requestLog EXCEPT ![ip] = Append(kept, now)]]

\* a limiter that counts the requests of all addresses together:
\* LimiterIsPerClient tells it from the code's
isRateLimitedAnyClient(requestLog, now, ip) ==
  LET windowStart == now - RATE_LIMIT_WINDOW
      InWindow(time) == time > windowStart
      kept == SelectSeq(requestLog[ip], InWindow)
      all == Sum([i \in 1..3 |->
                   Len(SelectSeq(requestLog[<<"1.1.1.1", "2.2.2.2", "unknown">>[i]],
                                 InWindow))])
  IN IF all >= MAX_REQUESTS_PER_WINDOW
       THEN [limited |-> TRUE, requestLog |-> [requestLog EXCEPT ![ip] = kept]]
       ELSE [limited |-> FALSE,
             requestLog |-> [requestLog EXCEPT ![ip] = Append(kept, now)]]

\* isRateLimited (lines 10-25): the answer and requestLog after the call
isRateLimited(requestLog, now, ip) ==
  LET windowStart == now - RATE_LIMIT_WINDOW
      InWindow(time) == time > windowStart
      kept == SelectSeq(requestLog[ip], InWindow)
  IN IF Len(kept) >= MAX_REQUESTS_PER_WINDOW
       THEN [limited |-> TRUE, requestLog |-> [requestLog EXCEPT ![ip] = kept]]
       ELSE [limited |-> FALSE,
             requestLog |-> [requestLog EXCEPT ![ip] = Append(kept, now)]]

\* origins, as the pieces the patterns of allowedOrigins tell apart
LowerOrDigitOrDash == {"seven", "git-dev", "abc123"}
Digits == {"5173", "80"}

\* 'https://idea-generator-seven.vercel.app'
IsProductionURL(origin) ==
  origin = <<"https://", "idea-generator-", "seven", ".vercel.app">>

\* /^https:\/\/idea-generator-[a-z0-9-]+-silmu\.vercel\.app$/
IsPreviewURL(origin) ==
  /\ Len(origin) = 5
  /\ origin[1] = "https://" /\ origin[2] = "idea-generator-"
  /\ origin[3] \in LowerOrDigitOrDash
  /\ origin[4] = "-silmu" /\ origin[5] = ".vercel.app"

\* /^https?:\/\/localhost(:\d+)?$/
IsLocalhost(origin) ==
  /\ Len(origin) \in {2, 4}
  /\ origin[1] \in {"http://", "https://"} /\ origin[2] = "localhost"
  /\ Len(origin) = 4 => origin[3] = ":" /\ origin[4] \in Digits

\* allowedOrigins.some(...) (lines 28-35 and 45-52)
isOriginAllowed(origin) ==
  IsProductionURL(origin) \/ IsPreviewURL(origin) \/ IsLocalhost(origin)

isProduction == server.VERCEL_ENV = "production"
isPreview == server.VERCEL_ENV = "preview"
isDevelopment == server.VERCEL_ENV = "development" \/ server.VERCEL_ENV = ""

\* origin.includes('vercel.app')
IncludesVercelApp(origin) == \E i \in 1..Len(origin) : origin[i] = ".vercel.app"

\* validateOrigin (lines 43-67)
validateOrigin(origin) ==
  IF isProduction THEN isOriginAllowed(origin)
  ELSE IF isPreview THEN isOriginAllowed(origin) \/ IncludesVercelApp(origin)
  ELSE TRUE

\* the requests: method, the x-forwarded-for header and the address of the
\* socket ("" when absent), and the Origin header
Methods == {"OPTIONS", "GET", "POST", "DELETE"}
Origins ==
  { <<"https://", "idea-generator-", "seven", ".vercel.app">>,
    <<"https://", "idea-generator-", "git-dev", "-silmu", ".vercel.app">>,
    <<"http://", "localhost", ":", "5173">>,
    <<"https://", "other", ".vercel.app">>,
    <<"https://", "evil.example">> }
Requests ==
  [ method : Methods,
    forwardedFor : {"", "1.1.1.1"},
    remoteAddress : {"", "2.2.2.2"},
    origin : Origins ]

\* req.headers['x-forwarded-for'] || req.connection.remoteAddress || 'unknown'
clientIP(req) ==
  IF req.forwardedFor # "" THEN req.forwardedFor
  ELSE IF req.remoteAddress # "" THEN req.remoteAddress
  ELSE "unknown"

\* process.env.GEMINI_API_KEY || process.env.VITE_GEMINI_API_KEY || process.env.API_KEY
apiKey ==
  IF server.GEMINI_API_KEY # "" THEN server.GEMINI_API_KEY
  ELSE IF server.VITE_GEMINI_API_KEY # "" THEN server.VITE_GEMINI_API_KEY
  ELSE server.API_KEY

Respond(status, body, key) ==
  server' = [server EXCEPT !.response = [status |-> status, body |-> body, apiKey |-> key]]

\* the requests admitted so far, of all addresses
Admitted ==
  Len(server.admitted["1.1.1.1"]) + Len(server.admitted["2.2.2.2"])
  + Len(server.admitted["unknown"])

\* the handler (lines 70-144)
handler(req) ==
  /\ Admitted <= MaxRequests
  /\ IF req.method = "OPTIONS"
       THEN Respond(200, "end", "")
     ELSE IF req.method # "POST" /\ req.method # "GET"
       THEN Respond(405, "Method not allowed", "")
     ELSE LET ip == clientIP(req)
              limit == isRateLimited(server.requestLog, server.now, ip)
          IN IF limit.limited
               THEN server' = [server EXCEPT
                      !.requestLog = limit.requestLog,
                      !.response = [status |-> 429,
                                    body |-> "Too many requests. Please try again later.",
                                    apiKey |-> ""]]
             ELSE server' = [server EXCEPT
                      !.requestLog = limit.requestLog,
                      !.admitted = [@ EXCEPT ![ip] = Append(@, server.now)],
                      !.response =
                         IF apiKey = ""
                           THEN [status |-> 500, body |-> "API key not configured",
                                 apiKey |-> ""]
                         ELSE IF req.method = "GET" /\ isDevelopment
                           THEN [status |-> 200,
                                 body |-> "API key is configured correctly",
                                 apiKey |-> ""]
                         ELSE [status |-> 200,
                               body |-> "API key successfully retrieved",
                               apiKey |-> apiKey]]
  /\ UNCHANGED <<genAI, apiInit, isLoading, conversation, error, run, okLeft, mode, bad,
                 input, output, older>>

\* Date.now() moves on
TickMs == 30 * 1000
Tick ==
  /\ server.now < MaxTicks * TickMs
  /\ server' = [server EXCEPT !.now = @ + TickMs]
  /\ UNCHANGED <<genAI, apiInit, isLoading, conversation, error, run, okLeft, mode, bad,
                 input, output, older>>

\* the function deployed in any environment, answering any request
InitGemini ==
  /\ ClientIdle
  /\ input = <<>>
  /\ \E env \in {"production", "preview", "development", ""},
        gemini \in {"", "key-1"}, vite \in {"", "key-2"}, api \in {"", "key-3"} :
       server = [NoServer EXCEPT !.VERCEL_ENV = env, !.GEMINI_API_KEY = gemini,
                                 !.VITE_GEMINI_API_KEY = vite, !.API_KEY = api]

NextGemini == \E req \in Requests : handler(req)

SpecGemini == InitGemini /\ [][NextGemini]_vars

\* the function deployed in production with its key, over time
LimiterRequests ==
  { req \in Requests : /\ req.method = "POST"
                       /\ req.remoteAddress = "2.2.2.2"
                       /\ IsProductionURL(req.origin) }

InitLimiter ==
  /\ ClientIdle
  /\ input = <<>>
  /\ server = [NoServer EXCEPT !.VERCEL_ENV = "production", !.GEMINI_API_KEY = "key-1"]

NextLimiter ==
  \/ Tick
  \/ \E req \in LimiterRequests : handler(req)

SpecLimiter == InitLimiter /\ [][NextLimiter]_vars

(***************************************************************************)
(* Properties of the iteration loop                                        *)
(***************************************************************************)
\* a > b for two averages kept as fractions
Greater(a, b) == a.num * b.den > b.num * a.den

\* isBetter of the specification, on two entries of iterationHistory: a higher
\* grade rank, or the same rank and a higher average rating
isBetter(a, b) ==
  \/ scoreRank(a.score) > scoreRank(b.score)
  \/ /\ scoreRank(a.score) = scoreRank(b.score)
     /\ Greater(Average(a.ratings), Average(b.ratings))

\* the conversation the provider holds, and its history
Result == conversation[1]
History == Result.iterationHistory
InLoop == {"loopIdeas", "loopCritic"}

\* C1: the conversation emitted by a successful run carries the ideas, the
\* feedback and the grade of an iteration than which no other iteration of the
\* run is better under isBetter.
BestIterationReturned ==
  conversation # None =>
    \E i \in 1..Len(History) :
      /\ \A j \in 1..Len(History) : ~isBetter(History[j], History[i])
      /\ Result.bestScore = History[i].score
      /\ Result.feedback = History[i].feedback
      /\ Result.ideas = WithRatings(History[i].ideas, History[i].ratings)

\* C2: once the iteration counter has reached the minimum, no further
\* generation call is made after an iteration whose improvement of the average
\* rating over the previous iteration is below the threshold.
StopsBelowThreshold ==
  \A r \in Slots :
    run[r].pc = "loopIdeas" /\ run[r].iteration >= MIN_ITERATIONS
      => run[r].improvementThresholdMet

MaximumIterations ==
  /\ \A r \in Slots :
       /\ run[r].iteration <= MAX_ITERATIONS
       /\ Len(run[r].iterationHistory) <= MAX_ITERATIONS
  /\ conversation # None =>
       /\ Result.iteration <= MAX_ITERATIONS
       /\ Len(History) <= MAX_ITERATIONS

\* a run that was stopped by the maximum: its last iteration still has an idea
\* rated below the cutoff
StoppedByMaximum ==
  /\ conversation # None
  /\ Result.iteration = MAX_ITERATIONS
  /\ \E i \in 1..Len(Result.ideas) : Get(Result.ideas[i], "rating").n < RATING_CUTOFF

\* C5: once the critique of an iteration has reported the grade A++, the run
\* starts no further iteration.
NoIterationAfterTopGrade ==
  \A r \in Slots :
    run[r].pc \in InLoop
      => \A i \in 1..Len(run[r].iterationHistory) :
           run[r].iterationHistory[i].score # <<"A++">>

\* C6: a run does not stop after an iteration that left the counter below
\* MAX_ITERATIONS, improved the average rating by the threshold or more over
\* the previous iteration, and was not graded A++.
ContinuesWhileImproving ==
  conversation # None /\ Len(History) >= 2 =>
    ~ /\ Result.iteration < MAX_ITERATIONS
      /\ ImprovementThresholdMet(Average(History[Len(History) - 1].ratings),
                                 Average(History[Len(History)].ratings))
      /\ History[Len(History)].score # <<"A++">>

\* C7: the length of iterationHistory equals the iteration counter wherever a
\* run is suspended on a model call, and in every emitted conversation.
HistoryMatchesCounter ==
  /\ \A r \in Slots :
       run[r].pc \in Awaiting => Len(run[r].iterationHistory) = run[r].iteration
  /\ conversation # None => Len(History) = Result.iteration

\* a run suspended on the critique of its third iteration, while the
\* conversation of an earlier run is held
SuspendedInThirdIteration ==
  /\ conversation # None
  /\ \E r \in Slots :
       /\ run[r].pc = "loopCritic"
       /\ run[r].iteration = 2
       /\ Len(run[r].iterationHistory) = 2

(***************************************************************************)
(* Properties of failure and of the conversation slot                      *)
(***************************************************************************)
\* C8: whichever await a run fails at, when it ends isLoading is false, error
\* holds a message, and conversation is what it was when the run started.
FailureKeepsResult ==
  [][ \A r \in Slots :
        run[r].pc \in Awaiting /\ run'[r].pc = "failed"
          => /\ isLoading' = FALSE
             /\ error' # None
             /\ error'[1] # <<>>
             /\ conversation' = run[r].before ]_vars

\* a run that failed on a rejected critique in its loop, the conversation of
\* the run before it still held
FailedAfterSuccess ==
  /\ conversation # None
  /\ ~isLoading
  /\ error = Some(<<"Failed to parse feedback response: ", "Invalid criticism format">>)
  /\ \E r \in Slots : run[r].pc = "failed" /\ run[r].before = conversation

\* C9: a run writes conversation once, when the loop is over, if it succeeds,
\* and never if it fails; until a run has succeeded conversation is what it
\* was when the run started.
WrittenOncePerRun ==
  \A r \in Slots :
    /\ run[r].pc \in Awaiting \cup {"failed"}
         => run[r].writes = 0 /\ conversation = run[r].before
    /\ run[r].pc = "done"
         => /\ run[r].writes = 1
            /\ conversation # None
            /\ ~LoopCondition(Result.iteration, Result.ideas)

\* a first run that failed on the generator's answer inside the loop, after at
\* least one decided iteration: nothing of it is held
FailedInLoopEmitsNothing ==
  /\ conversation = None
  /\ error = Some(<<"Failed to parse ideas response: ", "No valid JSON found in response">>)
  /\ \E r \in Slots : run[r].pc = "failed" /\ run[r].writes = 0

\* C10: generateIdeas called with an empty or whitespace-only prompt issues no
\* model call, sets error to the message asking for a prompt, and leaves
\* isLoading and conversation as they are.
BlankPromptRejected ==
  [][ \A prompt \in ApiPrompts :
        trim(prompt) = <<>> /\ CallGenerateIdeas(prompt)
          => /\ error' = Some(<<"Please enter a prompt">>)
             /\ UNCHANGED <<isLoading, conversation, run, okLeft>> ]_vars

\* a blank call made while a run was in flight
BlankCallDuringRun ==
  /\ error = Some(<<"Please enter a prompt">>)
  /\ isLoading
  /\ \E r \in Slots : run[r].pc \in Awaiting

(***************************************************************************)
(* Properties of concurrency and of the order of the model calls           *)
(***************************************************************************)
\* the runs in flight, of the one provider and of the other
InFlight == {r \in Slots : run[r].pc \in Awaiting}
BadInFlight == bad.pc \in BadAwaiting

\* C11: whatever the submissions and the switches of mode, no run is started
\* while another is active: at no time are two runs in flight in the
\* application.
OneRunAtATime ==
  /\ Cardinality(InFlight) <= 1
  /\ ~(InFlight # {} /\ BadInFlight)
  /\ ~(isLoading /\ bad.isLoading)

\* C12: when an invocation of generateIdeas ends, by completing or by failing,
\* while an invocation started after it is still in flight, it writes none of
\* conversation, error and isLoading.
EarlierRunDiscarded ==
  [][ \A e, q \in Slots :
        /\ run[q].pc \in Awaiting
        /\ e \in run[q].earlier
        /\ run[e].pc \in Awaiting
        /\ run'[e].pc \in {"done", "failed"}
        => UNCHANGED <<conversation, error, isLoading>> ]_vars

\* the kind of call a run is suspended on, and how many calls it has then
\* issued after its decided iterations
AwaitedKind(pc) ==
  CASE pc = "enhance" -> "enhance"
    [] pc \in {"initialIdeas", "loopIdeas"} -> "generate"
    [] pc \in {"initialCritic", "loopCritic"} -> "critique"

\* C13: the model calls of a run are one enhancement call, then alternately a
\* generation call and a critique call; a run suspended on a call has issued
\* that call last, after two calls per decided iteration and the enhancement
\* call, and a successful run of n iterations has issued 1 + 2n calls.
CallsInOrder ==
  \A r \in Slots :
    LET calls == run[r].calls IN
    /\ \A i \in 1..Len(calls) :
         calls[i] = IF i = 1 THEN "enhance"
                    ELSE IF i % 2 = 0 THEN "generate" ELSE "critique"
    /\ run[r].pc \in Awaiting =>
         /\ calls[Len(calls)] = AwaitedKind(run[r].pc)
         /\ Len(calls) = 2 * run[r].iteration
                         + (CASE AwaitedKind(run[r].pc) = "enhance" -> 1
                              [] AwaitedKind(run[r].pc) = "generate" -> 2
                              [] AwaitedKind(run[r].pc) = "critique" -> 3)
    /\ run[r].pc = "done" /\ conversation # None =>
         Len(calls) = 1 + 2 * Result.iteration

\* a successful run of three iterations: seven calls
SevenCallsForThreeIterations ==
  \E r \in Slots :
    /\ run[r].pc = "done"
    /\ conversation # None
    /\ Result.iteration = 3
    /\ Len(run[r].calls) = 7

\* C14: a run that has failed issues no further model call, the step that
\* fails issues none, and no enhancement, generation or critique call of a run
\* is issued twice.
NoRetry ==
  [][ \A r \in Slots :
        /\ run[r].pc = "failed" =>
             \/ run'[r] = run[r]
             \/ run'[r].pc = "enhance" /\ run'[r].calls = <<"enhance">>
        /\ run[r].pc \in Awaiting /\ run'[r].pc = "failed" =>
             run'[r].calls = run[r].calls
        /\ run'[r].pc \in Awaiting =>
             /\ Len(run'[r].calls) <= Len(run[r].calls) + 1
             /\ Len(run'[r].calls) = Len(run[r].calls) + 1
                  => run[r].pc \notin Awaiting \/ run'[r].pc # run[r].pc ]_vars

\* a run that failed in its second iteration, on the critic's answer, after
\* five calls
FailedAfterFiveCalls ==
  /\ error = Some(<<"Failed to parse feedback response: ", "No valid JSON found in response">>)
  /\ \E r \in Slots : run[r].pc = "failed" /\ Len(run[r].calls) = 5

(***************************************************************************)
(* Properties of the helper functions                                      *)
(***************************************************************************)
\* the grades of the contract
Grades == {<<"C">>, <<"B">>, <<"A">>, <<"A+">>, <<"A++">>}

\* the shape contract of a critique: an object with a non-empty ratings array
\* of numbers in [0, 100], a feedback string that is not blank, and a grade
ValidCritique(v) ==
  /\ v.t = "obj"
  /\ HasKey(v, "ratings") /\ HasKey(v, "feedback") /\ HasKey(v, "overallScore")
  /\ Get(v, "ratings").t = "arr"
  /\ Get(v, "ratings").a # <<>>
  /\ \A i \in 1..Len(Get(v, "ratings").a) :
       /\ Get(v, "ratings").a[i].t = "num"
       /\ Get(v, "ratings").a[i].n \in 0..100
  /\ Get(v, "feedback").t = "str"
  /\ trim(Get(v, "feedback").s) # <<>>
  /\ Get(v, "overallScore").t = "str"
  /\ Get(v, "overallScore").s \in Grades

\* C15: validateCriticResponse returns true for every payload that meets the
\* shape contract and false for every other payload: one that is no object,
\* misses a key, has an empty ratings array or a rating outside [0, 100], a
\* blank feedback, or a grade outside the enumeration.
ValidatorMatchesContract ==
  output.fn = "validate" => (output.ok <=> ValidCritique(input))

\* a payload accepted with ratings on both ends of the range
AcceptedAtRangeEnds ==
  /\ output.fn = "validate"
  /\ output.ok
  /\ Get(input, "ratings") = JArr(<<JNum(0), JNum(100)>>)

\* the value of an array of ideas
IdeaValues(ideas) ==
  JArr([i \in 1..Len(ideas) |->
          JObj(<<Member("title", JStr(ideas[i].title)),
                 Member("description", JStr(ideas[i].description))>>)])

\* C16: for a text that holds one well-formed JSON array of one or more
\* objects, bare or inside prose or a code fence, extractAndParseJSON returns
\* that array.
ArrayExtracted ==
  output.fn = "extract" /\ input.ideas # <<>> =>
    output.ok /\ output.val = IdeaValues(input.ideas)

\* the candidate of a pattern, and whether it parses
Candidate(text, pattern) ==
  LET match == Match(text, pattern)
  IN JSONparse(Cleaned(IF match.group # <<>> THEN match.group ELSE match.whole))
Parses(text, i) == Match(text, patterns[i]).found /\ Candidate(text, patterns[i]).ok

\* C17: extractAndParseJSON fails exactly when no pattern gives a candidate
\* that parses as JSON, and otherwise returns the value of the first pattern
\* whose candidate parses, whatever candidates failed before it.
SearchTriesEveryPattern ==
  output.fn = "extract" =>
    LET hits == {i \in 1..Len(patterns) : Parses(input.text, i)}
    IN /\ output.ok <=> hits # {}
       /\ hits = {} => output.val = JUndefined
       /\ hits # {} => output.val = Candidate(input.text, patterns[Min(hits)]).val

\* a text whose first candidate, from the first brace to the last, does not
\* parse, and whose array is found by the second pattern
SecondPatternAfterFailure ==
  /\ output.fn = "extract"
  /\ output.ok
  /\ Match(input.text, patterns[1]).found
  /\ ~Parses(input.text, 1)
  /\ Parses(input.text, 2)

\* the best-so-far snapshot of the specification after the iterations of a
\* history: the first entry, replaced by each later entry that isBetter
RECURSIVE BestSoFar(_)
BestSoFar(history) ==
  IF Len(history) = 1 THEN history[1]
  ELSE LET before == BestSoFar(SubSeq(history, 1, Len(history) - 1))
           latest == history[Len(history)]
       IN IF isBetter(latest, before) THEN latest ELSE before

\* C18: the snapshot a run holds (finalIdeas, bestScore) is updated by
\* isBetter: it is the first iteration, replaced by each later iteration that
\* has a higher grade rank, or the same rank and a higher average rating, and
\* by no other.
SnapshotUpdatedByIsBetter ==
  \A r \in Slots :
    run[r].iterationHistory # <<>> =>
      LET best == BestSoFar(run[r].iterationHistory)
      IN /\ run[r].bestScore = best.score
         /\ run[r].finalIdeas = WithRatings(best.ideas, best.ratings)

\* the iteration whose ideas and grade a run holds as its snapshot
Held(l, entry) ==
  /\ l.bestScore = entry.score
  /\ l.finalIdeas = WithRatings(entry.ideas, entry.ratings)

\* C19: an iteration whose grade and average rating equal those of the
\* snapshot the run holds does not replace the snapshot.
EqualIterationKeepsSnapshot ==
  [][\A r \in Slots :
       LET old == run[r].iterationHistory
           new == run'[r].iterationHistory
       IN /\ old # <<>>
          /\ Len(new) = Len(old) + 1
          /\ \E i \in 1..Len(old) :
               /\ Held(run[r], old[i])
               /\ new[Len(new)].score = old[i].score
               /\ ~Greater(Average(new[Len(new)].ratings), Average(old[i].ratings))
               /\ ~Greater(Average(old[i].ratings), Average(new[Len(new)].ratings))
          => /\ run'[r].finalIdeas = run[r].finalIdeas
             /\ run'[r].bestScore = run[r].bestScore]_vars

\* the arrays the generator can have returned
GeneratedArrays ==
  { extractAndParseJSON(text).val.a :
      text \in {t \in GeneratorTexts : extractAndParseJSON(t).ok
                                       /\ extractAndParseJSON(t).val.t = "arr"} }

\* the idea has the title and the description of the generated idea
SameText(idea, generated) ==
  /\ HasKey(idea, "title") /\ HasKey(generated, "title")
  /\ Get(idea, "title") = Get(generated, "title")
  /\ HasKey(idea, "description") /\ HasKey(generated, "description")
  /\ Get(idea, "description") = Get(generated, "description")

\* the ideas are, index by index, those of a generated array
FromGenerated(ideas, generated) ==
  /\ Len(ideas) = Len(generated)
  /\ \A k \in 1..Len(ideas) : SameText(ideas[k], generated[k])

\* C20: every idea of the emitted conversation has the title and
\* the description of the idea at its index in the generator's array of one
\* iteration, and as rating the rating at its index in the critique of that
\* iteration.
IdeasRoundTripEveryRating ==
  conversation # None =>
    \E i \in 1..Len(History) : \E generated \in GeneratedArrays :
      /\ FromGenerated(History[i].ideas, generated)
      /\ FromGenerated(Result.ideas, generated)
      /\ \A k \in 1..Len(Result.ideas) :
           /\ k <= Len(History[i].ratings)
           /\ Get(Result.ideas[k], "rating") = JNum(History[i].ratings[k])

(***************************************************************************)
(* Properties of the emitted conversation                                  *)
(***************************************************************************)
\* C21: every entry of iterationHistory, of a run in flight or of the emitted
\* conversation, has as many ratings as ideas: a critique with fewer or more
\* ratings than the ideas it rated is never accepted.
RatingsAlignedWithIdeas ==
  /\ \A r \in Slots : \A i \in 1..Len(run[r].iterationHistory) :
       Len(run[r].iterationHistory[i].ratings) = Len(run[r].iterationHistory[i].ideas)
  /\ conversation # None =>
       \A i \in 1..Len(History) : Len(History[i].ratings) = Len(History[i].ideas)

\* a conversation whose grades are grades of the enumeration and whose history
\* entries have a feedback and ratings, all of them in [0, 100]
WellFormed(c) ==
  /\ c.bestScore \in Grades
  /\ \A i \in 1..Len(c.iterationHistory) :
       LET entry == c.iterationHistory[i]
       IN /\ entry.score \in Grades
          /\ entry.feedback # <<>>
          /\ entry.ratings # <<>>
          /\ \A k \in 1..Len(entry.ratings) : entry.ratings[k] \in 0..100

\* C22: every conversation emitted, by the one provider or by the other, is
\* well formed: its grade and the grade of every history entry are in
\* {C, B, A, A+, A++}, and every history entry has a non-empty feedback and
\* non-empty ratings in [0, 100].
EveryConversationWellFormed ==
  /\ conversation # None => WellFormed(conversation[1])
  /\ bad.conversation # None => WellFormed(bad.conversation[1])

\* C22, amended: every conversation emitted by the provider of the good mode
\* is well formed.
GoodConversationWellFormed ==
  conversation # None => WellFormed(conversation[1])

\* a conversation of two iterations emitted by the provider of the good mode
GoodConversationEmitted ==
  /\ conversation # None
  /\ Len(History) = 2
  /\ Result.bestScore = <<"A++">>

\* the places of the ideas of a history: entry and index
Places(history) ==
  UNION { { <<i, k>> : k \in 1..Len(history[i].ideas) } : i \in 1..Len(history) }

\* C23: every idea of the emitted conversation, in ideas and in every history
\* entry, carries an id, and no two ideas of the history share an id.
EveryIdeaHasUniqueId ==
  conversation # None =>
    /\ \A k \in 1..Len(Result.ideas) : HasKey(Result.ideas[k], "id")
    /\ \A p \in Places(History) : HasKey(History[p[1]].ideas[p[2]], "id")
    /\ \A p, q \in Places(History) :
         p # q /\ HasKey(History[p[1]].ideas[p[2]], "id")
               /\ HasKey(History[q[1]].ideas[q[2]], "id")
           => Get(History[p[1]].ideas[p[2]], "id") # Get(History[q[1]].ideas[q[2]], "id")

(***************************************************************************)
(* Properties of api/gemini.js                                             *)
(***************************************************************************)
\* the requests of an address admitted in the window (t - 60 s, t]
AdmittedIn(ip, t) ==
  Cardinality({ i \in 1..Len(server.admitted[ip]) :
                  /\ server.admitted[ip][i] > t - RATE_LIMIT_WINDOW
                  /\ server.admitted[ip][i] <= t })

\* the instants of the clock so far
Instants == { k * TickMs : k \in 0..MaxTicks + 1 } \cap 0..server.now

WindowsWithinLimit ==
  \A ip \in ClientIPs : \A t \in Instants :
    AdmittedIn(ip, t) <= MAX_REQUESTS_PER_WINDOW

\* C24: for every address and every time t, at most MAX_REQUESTS_PER_WINDOW
\* requests of that address were admitted in (t - 60 s, t], and a request that
\* arrives when that many are in the window is answered 429 and not admitted.
AtMostTenPerWindow ==
  [][ /\ WindowsWithinLimit'
      /\ \A req \in LimiterRequests :
           /\ handler(req)
           /\ AdmittedIn(clientIP(req), server.now) >= MAX_REQUESTS_PER_WINDOW
           => /\ server'.response.status = 429
              /\ server'.admitted = server.admitted ]_vars

\* ten requests admitted over two instants of one window, and the next refused
TenInWindowThenRefused ==
  /\ server.response.status = 429
  /\ server.now = TickMs
  /\ \E ip \in ClientIPs :
       /\ AdmittedIn(ip, server.now) = MAX_REQUESTS_PER_WINDOW
       /\ AdmittedIn(ip, 0) \in 1..MAX_REQUESTS_PER_WINDOW - 1

\* C25: in production, a request whose Origin is not among allowedOrigins is
\* never answered with the API key.
OriginEnforcedInProduction ==
  [][ \A req \in Requests :
        handler(req) /\ isProduction /\ ~isOriginAllowed(req.origin)
          => server'.response.apiKey = "" ]_vars

(***************************************************************************)
(* Properties of the sampler and of the form                               *)
(***************************************************************************)
\* C26: for a catalog of distinct phrases and a count not above its length,
\* the sampler returns exactly count entries, each of them in the catalog, no
\* two of them equal, and the catalog is as it was.
SamplerDrawsDistinct ==
  /\ \E n \in 1..MaxCatalog : input.catalog = Catalog(n)
  /\ output.fn = "sample" /\ input.count <= Len(input.catalog) =>
       LET selected == output.val.a
       IN /\ Len(selected) = input.count
          /\ \A i \in 1..Len(selected) :
               \E k \in 1..Len(input.catalog) : selected[i] = JStr(<<input.catalog[k]>>)
          /\ \A i, j \in 1..Len(selected) : i # j => selected[i] # selected[j]

\* three of five entries drawn, in another order than the catalog's
ThreeOfFiveDrawn ==
  /\ output.fn = "sample"
  /\ Len(input.catalog) = 5
  /\ input.count = 3
  /\ output.val.a[1] = JStr(<<input.catalog[4]>>)
  /\ output.val.a[2] = JStr(<<input.catalog[1]>>)

\* C27: the text the form has passed to generateIdeas, which is the text sent
\* to the enhancer, has at least MIN_CHARS and at most MAX_CHARS characters and
\* is not blank.
SubmittedPromptWithinBounds ==
  \A r \in Slots :
    run[r].pc \in Awaiting =>
      /\ Len(run[r].prompt) >= MIN_CHARS
      /\ Len(run[r].prompt) <= MAX_CHARS
      /\ trim(run[r].prompt) # <<>>

\* C28: the ideas, the feedback and the grade of the emitted conversation come
\* from one and the same iteration: for some entry of the history, the ideas
\* are that entry's ideas with that entry's ratings, the feedback is that
\* entry's feedback and bestScore is that entry's score.
SameIterationReturned ==
  conversation # None =>
    \E i \in 1..Len(History) :
      /\ Result.ideas = WithRatings(History[i].ideas, History[i].ratings)
      /\ Result.feedback = History[i].feedback
      /\ Result.bestScore = History[i].score

\* a conversation whose two iterations differ in grade, feedback and ideas
TwoDifferentIterations ==
  /\ conversation # None
  /\ Len(History) = 2
  /\ History[1].score # History[2].score
  /\ History[1].feedback # History[2].feedback
  /\ Len(History[1].ideas) # Len(History[2].ideas)

\* new is old with one entry added at its end, and that entry holds the
\* working ideas as they were before the ratings were merged
Extends(old, new, ideas) ==
  /\ Len(new) = Len(old) + 1
  /\ SubSeq(new, 1, Len(old)) = old
  /\ new[Len(new)].ideas = ideas

\* C29: iterationHistory is append-only: a step that decides an iteration adds
\* exactly one entry at the end, holding the ideas as they were before the
\* merge of the ratings; no other step of a run changes the history, and the
\* entries added earlier stay as they are, up to the history emitted in the
\* conversation.  A run that fails or starts anew has no history.
HistoryAppendOnly ==
  [][ \A r \in Slots :
        LET old == run[r].iterationHistory
            new == run'[r].iterationHistory
            deciding == /\ run[r].pc \in {"initialCritic", "loopCritic"}
                        /\ run'[r].pc \in {"loopIdeas", "done"}
        IN \/ ~deciding /\ new = old
           \/ /\ deciding /\ run'[r].pc = "loopIdeas"
              /\ Extends(old, new, run[r].ideas)
           \/ /\ deciding /\ run'[r].pc = "done"
              /\ conversation' # None
              /\ Extends(old, conversation'[1].iterationHistory, run[r].ideas)
           \/ run'[r].pc \in {"failed", "enhance"} /\ new = <<>> ]_vars

\* two entries, the second holding its ideas without the ratings that the
\* working list got
SecondRecordBeforeMerge ==
  \E r \in Slots :
    /\ run[r].pc = "loopIdeas"
    /\ Len(run[r].iterationHistory) = 2
    /\ Get(run[r].iterationHistory[2].ideas[1], "rating") = JNum(0)
    /\ Get(run[r].finalIdeas[1], "rating") = JNum(80)
    /\ ~HasKey(run[r].iterationHistory[1].ideas[1], "rating")

\* (avg(a) - avg(b)) / avg(b) >= IMPROVEMENT_THRESHOLD_PERCENT / 100 for the
\* ratings a of an iteration and b of the one before it, b with a positive sum
ImprovedOver(a, b) ==
  100 * (Sum(a) * Len(b) - Sum(b) * Len(a))
    >= IMPROVEMENT_THRESHOLD_PERCENT * Sum(b) * Len(a)

LoadingWhileInFlight ==
  (\E r \in Slots : run[r].pc \in Awaiting) => isLoading

\* C34: no model call is issued unless the key was fetched: a step in which a
\* run issues a call starts from a state where genAI is set, and generateIdeas
\* called with a prompt that is not blank while genAI is null, initialization
\* pending or failed, sets error to the message of line 253, starts no run and
\* leaves isLoading and conversation as they are.
NoCallBeforeInitialization ==
  [][ /\ \A r \in Slots :
           run'[r].pc \in Awaiting /\ run'[r].calls # run[r].calls => genAI
      /\ \A prompt \in ApiPrompts :
           trim(prompt) # <<>> /\ ~genAI /\ CallGenerateIdeas(prompt)
             => /\ error' = Some(<<"API not initialized. Please try again later.">>)
                /\ UNCHANGED <<isLoading, conversation, run, okLeft>> ]_vars

\* a call refused after the fetch of the key has failed
RefusedAfterFailedInitialization ==
  /\ error = Some(<<"API not initialized. Please try again later.">>)
  /\ apiInit = "settled"
  /\ ~genAI
  /\ \A r \in Slots : run[r] = NoRun

\* the base prompt followed by one feedback
WithFeedback(base, feedback) ==
  base \o <<"\n\nPrevious iteration feedback: ">> \o feedback

\* C36: the prompt carried between iterations never accumulates: in a run that
\* has decided one iteration it is the base enhanced prompt, after every pass
\* of the loop it is the base followed by the feedback of the latest iteration
\* alone, and the enhancedPrompt of the emitted conversation is the base when
\* one iteration ran and the base with the feedback of the last iteration
\* otherwise.
PromptNeverAccumulates ==
  /\ \A r \in Slots :
       run[r].pc \in Awaiting \ {"enhance"} =>
         LET history == run[r].iterationHistory IN
         run[r].currentPrompt =
           IF Len(history) <= 1 THEN run[r].enhancedPrompt
           ELSE WithFeedback(run[r].enhancedPrompt, history[Len(history)].feedback)
  /\ conversation # None =>
       \E base \in EnhancerTexts \ {<<>>} :
         Result.enhancedPrompt =
           IF Len(History) = 1 THEN base
           ELSE WithFeedback(base, History[Len(History)].feedback)

\* a conversation of three iterations whose second and third feedback differ:
\* the prompt holds the third alone
ThirdFeedbackAlone ==
  /\ conversation # None
  /\ Len(History) = 3
  /\ History[2].feedback # History[3].feedback
  /\ Result.enhancedPrompt
       = WithFeedback(<<"Generate ideas involving coffee">>, History[3].feedback)

(***************************************************************************)
(* Properties of the rate limiter's log                                    *)
(***************************************************************************)
\* the admitted requests of an address that lie in the window ending at t
AdmittedWithin(ip, t) ==
  LET InWindow(time) == time > t - RATE_LIMIT_WINDOW
  IN SelectSeq(server.admitted[ip], InWindow)

\* C37: a refused request is not recorded by the limiter, so refusals never
\* prolong a lockout: after every request the log of its address holds the
\* admitted requests of the last 60 seconds and nothing else, and a request
\* that arrives when fewer than MAX_REQUESTS_PER_WINDOW admitted requests of
\* its address lie in the last 60 seconds is admitted, whatever was refused
\* before.
RefusalsNotRecorded ==
  [][ \A req \in LimiterRequests :
        handler(req) =>
          LET ip == clientIP(req) IN
          /\ server'.requestLog[ip] = AdmittedWithin(ip, server.now)'
          /\ server'.response.status = 429 =>
               server'.admitted = server.admitted
          /\ Len(AdmittedWithin(ip, server.now)) < MAX_REQUESTS_PER_WINDOW =>
               /\ server'.response.status # 429
               /\ server'.admitted[ip] = Append(server.admitted[ip], server.now) ]_vars

\* a request refused half a minute after ten were admitted: the log still
\* holds those ten and no other
RefusedAndNotLogged ==
  /\ server.response.status = 429
  /\ server.now = TickMs
  /\ \E ip \in ClientIPs :
       /\ Len(server.requestLog[ip]) = MAX_REQUESTS_PER_WINDOW
       /\ \A i \in 1..Len(server.requestLog[ip]) : server.requestLog[ip][i] = 0

\* a client admitted again once its ten admitted requests are a minute old
AdmittedAfterLockout ==
  /\ server.response.status = 200
  /\ server.now = 2 * TickMs
  /\ \E ip \in ClientIPs :
       /\ Len(server.admitted[ip]) = MAX_REQUESTS_PER_WINDOW + 1
       /\ server.admitted[ip][MAX_REQUESTS_PER_WINDOW] = 0
       /\ server.requestLog[ip] = <<2 * TickMs>>

\* requestLog with the entries of every address but ip removed
OnlyLogOf(ip) == [a \in ClientIPs |-> IF a = ip THEN server.requestLog[a] ELSE <<>>]

\* C38: the limiter is per client: the answer to a request depends on the log
\* of its own address alone, and a request changes neither the log of another
\* address nor whether a request of another address would be admitted.
LimiterIsPerClient ==
  [][ \A req \in LimiterRequests :
        handler(req) =>
          LET ip == clientIP(req) IN
          /\ (server'.response.status = 429)
               = isRateLimited(OnlyLogOf(ip), server.now, ip).limited
          /\ \A other \in ClientIPs \ {ip} :
               /\ server'.requestLog[other] = server.requestLog[other]
               /\ isRateLimited(server'.requestLog, server'.now, other).limited
                    = isRateLimited(server.requestLog, server.now, other).limited ]_vars

\* one address admitted half a minute after ten requests of another address
\* were, while those ten still fill the other's window
OtherClientAdmittedDuringLockout ==
  /\ server.response.status = 200
  /\ server.now = TickMs
  /\ \E ip, other \in ClientIPs :
       /\ ip # other
       /\ Len(server.requestLog[ip]) = MAX_REQUESTS_PER_WINDOW
       /\ server.requestLog[ip][MAX_REQUESTS_PER_WINDOW] = 0
       /\ server.requestLog[other] = <<TickMs>>

(***************************************************************************)
(* Properties of the improvement when the previous average is 0            *)
(***************************************************************************)
\* the critiques the validator accepts
AcceptedCritiques ==
  { text \in CriticTexts \cup {ZeroCritique} :
      /\ extractAndParseJSON(text).ok
      /\ validateCriticResponse(extractAndParseJSON(text).val) }

\* C35: when the average rating of the previous iteration is 0, the
\* improvement of the next iteration is taken as 0: the step that decides the
\* next iteration on an accepted critique does not fail, and it leaves
\* improvementThresholdMet equal to (0 >= threshold), in the run or in the
\* conversation it emits, whatever the new average is.
ZeroAverageIsNoImprovement ==
  [][ \A r \in Slots : \A text \in AcceptedCritiques :
        /\ run[r].pc = "loopCritic"
        /\ run[r].lastIterationScore.num = 0
        /\ LoopCriticReturn(r, text)
        => /\ run'[r].pc \in {"loopIdeas", "done"}
           /\ error' = error
           /\ run'[r].pc = "loopIdeas" =>
                run'[r].improvementThresholdMet = (0 >= IMPROVEMENT_THRESHOLD_PERCENT)
           /\ run'[r].pc = "done" =>
                conversation'[1].improvementThresholdMet
                  = (0 >= IMPROVEMENT_THRESHOLD_PERCENT) ]_vars

\* a conversation whose first iteration was rated 0 throughout and whose
\* second was rated 95
NinetyFiveAfterZero ==
  /\ conversation # None
  /\ Len(History) = 2
  /\ History[1].ratings = <<0, 0>>
  /\ History[2].ratings = <<95, 95, 95>>
  /\ ~Result.improvementThresholdMet

(***************************************************************************)
(* Termination of a run                                                    *)
(***************************************************************************)
\* the passes of a run through the body of the loop: its generation calls
\* after the first
LoopPasses(r) ==
  Cardinality({i \in 1..Len(run[r].calls) : run[r].calls[i] = "generate"}) - 1

\* the run of a slot has ended, and the provider shows it
EndedAndShown(r) ==
  /\ ~isLoading
  /\ \/ run[r].pc = "done" /\ conversation # None
     \/ run[r].pc = "failed" /\ error # None

\* C32: when every model call eventually returns or throws, every run that
\* has started eventually ends, done with the conversation written or failed
\* with the error written, and isLoading false; and no run passes through the
\* body of the loop more than MAX_ITERATIONS - 1 times.
EveryRunEnds ==
  /\ [](\A r \in Slots : LoopPasses(r) <= MAX_ITERATIONS - 1)
  /\ \A r \in Slots : (run[r].pc \in Awaiting) ~> EndedAndShown(r)

\* a run that ended done after MAX_ITERATIONS - 1 passes of the loop
EndedAfterFourPasses ==
  \E r \in Slots :
    /\ run[r].pc = "done"
    /\ LoopPasses(r) = MAX_ITERATIONS - 1
    /\ EndedAndShown(r)

====
